---- MODULE Spec2Model ----
(***************************************************************************)
(* Parking-state engine of QHacks_Meter.                                   *)
(*                                                                         *)
(*   - the catalogue held by the useParkingData hook and its two writers   *)
(*     (simulateUpdate, applySensorUpdate reached from the sensor poll     *)
(*     and from the parking-sensor-update event);                          *)
(*   - the temporal rule evaluator of data/parkingData.ts                  *)
(*     (parseTime, isLocationOpen, getCurrentPrice).                       *)
(*                                                                         *)
(* Representation.                                                         *)
(*   - An optional field (operatingHours?, pricing?, days?, dailyMax?) is  *)
(*     a set with at most one element: {} when the field is absent,        *)
(*     {v} when it holds v.  The same goes for a nullable result.          *)
(*   - A clock string "HH:MM" is the pair <<HH, MM>> of its two numeric    *)
(*     fields; parseTime turns it into minutes.                            *)
(*   - A rate is held in cents (2.5 dollars is 250).                       *)
(*   - A Date is the record of what getDay, getHours and getMinutes        *)
(*     return for it.                                                      *)
(***************************************************************************)
EXTENDS Integers, Sequences, FiniteSets, TLC

VARIABLES
    parkingData,    \* useParkingData state: the catalogue, a sequence of locations
    lastWrite,      \* history: the writer that ran last and the lotId it was given
    lastObs,        \* history: per sensor-backed id, the last value handed to applySensorUpdate
    location,       \* evaluator input: the location under evaluation
    date,           \* evaluator input: the instant under evaluation
    openResult,     \* evaluator output: last value returned by isLocationOpen, if any
    priceResult,    \* evaluator output: last value returned by getCurrentPrice, if any
    card,           \* evaluator output: what the last ParkingCard render shows, if any
    spots,          \* evaluator output: last value returned by getSpotPositions, if any
    chatQuestion,   \* chat input: the question as typed
    chatUserLocation, \* chat input: the searched or geolocated position, if any
    answer,         \* chat output: last value returned by answerParkingQuestion, if any
    resolved,       \* chat output: last value returned by findLocationsByQuestion, if any
    lastPoll,       \* history: what the fetchSensorData run that just ended was answered, if one just ended
    millis,         \* ESP32: the millisecond clock, an unsigned long
    esp32,          \* ESP32: the globals of the sketch
    pressAge,       \* history: true milliseconds since the last press seen on each FSR
    loops,          \* history: iterations of loop() so far
    sensorOccupancy, \* relay server: the Map, as its entries in insertion order
    httpResponse,   \* relay server: the response to the last request, if any
    lastValidPost   \* history: per lotId, availableSpots of the most recent valid POST

vars ==
    <<parkingData, lastWrite, lastObs, location, date, openResult, priceResult,
      card, spots, chatQuestion, chatUserLocation, answer, resolved, lastPoll,
      millis, esp32, pressAge, loops, sensorOccupancy, httpResponse,
      lastValidPost>>

catalogVars == <<parkingData, lastWrite, lastObs>>
chatVars == <<chatQuestion, chatUserLocation, answer, resolved>>
evalVars == <<location, date, openResult, priceResult, card, spots, chatVars>>
resultVars == <<openResult, priceResult, card, spots>>
hardwareVars == <<millis, esp32, pressAge, loops>>
relayVars == <<sensorOccupancy, httpResponse, lastValidPost>>
sensorSideVars == <<lastPoll, hardwareVars, relayVars>>

----------------------------------------------------------------------------
(* Helpers *)

None == {}
Some(v) == {v}
Get(o) == CHOOSE v \in o : TRUE

Min(a, b) == IF a < b THEN a ELSE b
Max(a, b) == IF a > b THEN a ELSE b

Range(s) == {s[i] : i \in 1..Len(s)}

----------------------------------------------------------------------------
(* Seed data: data/parkingData.ts *)

MON_SAT == {1, 2, 3, 4, 5, 6}
MON_FRI == {1, 2, 3, 4, 5}
ALL_DAYS == {0, 1, 2, 3, 4, 5, 6}

Hours(days, start, end) == [days |-> days, start |-> start, end |-> end]

Tier(days, startTime, endTime, rate, unit, dailyMax) ==
    [days |-> days, startTime |-> startTime, endTime |-> endTime,
     rate |-> rate, unit |-> unit, dailyMax |-> dailyMax]

Pricing(permitOnly, tiers) == [permitOnly |-> permitOnly, tiers |-> tiers]

Location(id, type, totalSpots, availableSpots, operatingHours, pricing) ==
    [id |-> id, type |-> type, totalSpots |-> totalSpots,
     availableSpots |-> availableSpots,
     operatingHours |-> operatingHours, pricing |-> pricing]

StreetHours == Some(<<Hours(MON_SAT, <<9, 30>>, <<17, 30>>)>>)

StreetPricing(rate) ==
    Some(Pricing(FALSE,
        <<Tier(Some(MON_SAT), <<9, 30>>, <<17, 30>>, rate, "hour", None),
          Tier(Some({0}), <<0, 0>>, <<24, 0>>, 0, "hour", None)>>))

BrockSt ==
    Location("brock-st", "street", 6, 4, StreetHours, StreetPricing(200))

ClergyStW ==
    Location("clergy-st-w", "street", 6, 2, StreetHours, StreetPricing(200))

AngroveLot ==
    Location("angrove-lot", "lot", 30, 8,
        Some(<<Hours(MON_SAT, <<9, 30>>, <<17, 30>>)>>),
        Some(Pricing(FALSE, <<Tier(None, <<9, 30>>, <<17, 30>>, 200, "hour", None)>>)))

ChownGarage ==
    Location("chown-garage", "lot", 150, 45,
        Some(<<Hours(ALL_DAYS, <<0, 0>>, <<23, 59>>)>>),
        Some(Pricing(FALSE,
            <<Tier(Some(MON_SAT), <<6, 0>>, <<18, 0>>, 200, "hour", None),
              Tier(Some(MON_SAT), <<18, 0>>, <<6, 0>>, 400, "flat", None),
              Tier(Some({0}), <<6, 0>>, <<6, 0>>, 400, "flat", None)>>)))

BeamishMunroHall ==
    Location("beamish-munro-hall", "lot", 3, 3,
        Some(<<Hours(ALL_DAYS, <<0, 0>>, <<23, 59>>)>>),
        Some(Pricing(FALSE, <<Tier(None, <<7, 0>>, <<18, 0>>, 250, "hour", None)>>)))

\* The catalogue the hook starts from.  The model carries three of the seed's
\* entries: a drifting street that starts within one tick of either end of
\* its range, and the two sensor-backed locations.  Both writers map over the
\* entries one by one, so the other entries behave as these do.
initialParkingData == <<BrockSt, ClergyStW, BeamishMunroHall>>

ARDUINO_IDS == {"clergy-st-w", "beamish-munro-hall"}

----------------------------------------------------------------------------
(* Bounds and input alphabets of the catalogue writers *)

\* Largest observation a sensor source delivers in the model; one more than
\* the capacity of clergy-st-w so that the upper clamp acts.
MaxObs == 7

\* Smallest observation is -1, so that the lower clamp acts.
Obs == (0 - 1)..MaxObs

\* A JSON / event value: a number n, or something that is not a number.
SensorValues ==
    {[isNumber |-> TRUE, n |-> n] : n \in Obs} \cup {[isNumber |-> FALSE, n |-> 0]}

CatalogIds == {initialParkingData[i].id : i \in 1..Len(initialParkingData)}

\* lotId values an event may carry: catalogue ids, an id of no entry, and the
\* empty string.
EventLotIds == CatalogIds \cup {"no-such-lot", ""}

\* Entries of a GET /api/parking answer: the sensor-backed ids with any value,
\* and one id outside ARDUINO_IDS.
PollValues ==
    {[isNumber |-> TRUE, n |-> n] : n \in {0 - 1, 0, 1, MaxObs}}
        \cup {[isNumber |-> FALSE, n |-> 0]}

PollEntries ==
    {[lotId |-> id, value |-> v] : id \in ARDUINO_IDS, v \in PollValues}
        \cup {[lotId |-> "brock-st", value |-> [isNumber |-> TRUE, n |-> 5]]}

\* Object.entries of the answer: entries in key order, keys distinct.
PollData ==
    {<<>>} \cup {<<e>> : e \in PollEntries}
        \cup {d \in PollEntries \X PollEntries : d[1].lotId # d[2].lotId}

PollResponses ==
    {[outcome |-> "networkError", data |-> <<>>], [outcome |-> "notOk", data |-> <<>>]}
        \cup {[outcome |-> "ok", data |-> d] : d \in PollData}

\* What one location draws in a drift tick: Math.random() > 0.3 leaves it
\* alone, otherwise floor(Math.random() * 7) - 3 is the change.
DriftDraws ==
    {[changed |-> FALSE, change |-> 0]}
        \cup {[changed |-> TRUE, change |-> c] : c \in (0 - 3)..3}

----------------------------------------------------------------------------
(* Catalogue writers: hooks/useParkingData.ts *)

\* Clamp without the Math.min: the capacity is not enforced.
ClampNoCeiling(x, total) == Max(0, x)

\* Math.max(0, Math.min(total, x))
Clamp(x, total) == Max(0, Min(total, x))

\* simulateUpdate without the ARDUINO_IDS test: a sensor-backed location
\* drifts like any other (here: it drew a change of -1).
simulateUpdateNoSkip(currentData, draws) ==
    [i \in 1..Len(currentData) |->
        LET d == IF i \in DOMAIN draws THEN draws[i]
                 ELSE [changed |-> TRUE, change |-> 0 - 1]
        IN  IF ~d.changed THEN currentData[i]
            ELSE [currentData[i] EXCEPT
                    !.availableSpots =
                        Max(0, Min(currentData[i].totalSpots,
                                   currentData[i].availableSpots + d.change))]]

\* The updater simulateUpdate hands to setParkingData.  draws gives, for each
\* location that is not sensor-backed, what Math.random produced for it.
simulateUpdate(currentData, draws) ==
    [i \in 1..Len(currentData) |->
        IF currentData[i].id \in ARDUINO_IDS THEN currentData[i]
        ELSE IF ~draws[i].changed THEN currentData[i]
        ELSE [currentData[i] EXCEPT
                !.availableSpots =
                    Clamp(currentData[i].availableSpots + draws[i].change,
                          currentData[i].totalSpots)]]

\* applySensorUpdate taking the observation as a change of the stored count.
applySensorUpdateDelta(prev, lotId, availableSpots) ==
    [i \in 1..Len(prev) |->
        IF prev[i].id = lotId
        THEN [prev[i] EXCEPT
                !.availableSpots =
                    Max(0, Min(prev[i].totalSpots, prev[i].availableSpots + availableSpots))]
        ELSE prev[i]]

\* applySensorUpdate falling back to the first entry when no id matches.
applySensorUpdateFallback(prev, lotId, availableSpots) ==
    [i \in 1..Len(prev) |->
        IF prev[i].id = lotId \/ (i = 1 /\ \A k \in 1..Len(prev) : prev[k].id # lotId)
        THEN [prev[i] EXCEPT
                !.availableSpots = Max(0, Min(prev[i].totalSpots, availableSpots))]
        ELSE prev[i]]

\* applySensorUpdate without the id test: every entry takes the observation.
applySensorUpdateEvery(prev, lotId, availableSpots) ==
    [i \in 1..Len(prev) |->
        [prev[i] EXCEPT
            !.availableSpots = Max(0, Min(prev[i].totalSpots, availableSpots))]]

\* The updater applySensorUpdate hands to setParkingData.
applySensorUpdate(prev, lotId, availableSpots) ==
    [i \in 1..Len(prev) |->
        IF prev[i].id = lotId
        THEN [prev[i] EXCEPT !.availableSpots = Clamp(availableSpots, prev[i].totalSpots)]
        ELSE prev[i]]

\* History of applySensorUpdate calls for the sensor-backed ids.
Observe(obs, lotId, availableSpots) ==
    IF lotId \in ARDUINO_IDS
    THEN [obs EXCEPT ![lotId] = Some(availableSpots)]
    ELSE obs

\* The test of line 54 without its typeof half.
ForwardedAnyValue(entry) == entry.lotId \in ARDUINO_IDS

\* Which entries of a poll answer fetchSensorData forwards.
Forwarded(entry) == entry.lotId \in ARDUINO_IDS /\ entry.value.isNumber

\* The for-loop of fetchSensorData over Object.entries(data).
RECURSIVE ApplyEntries(_, _)
ApplyEntries(prev, entries) ==
    IF entries = <<>> THEN prev
    ELSE LET e == Head(entries)
         IN  ApplyEntries(
                IF Forwarded(e) THEN applySensorUpdate(prev, e.lotId, e.value.n) ELSE prev,
                Tail(entries))

RECURSIVE ObserveEntries(_, _)
ObserveEntries(obs, entries) ==
    IF entries = <<>> THEN obs
    ELSE LET e == Head(entries)
         IN  ObserveEntries(
                IF Forwarded(e) THEN Observe(obs, e.lotId, e.value.n) ELSE obs,
                Tail(entries))

\* Indices of the locations a drift tick draws random numbers for.
DriftIdx == {i \in 1..Len(parkingData) : parkingData[i].id \notin ARDUINO_IDS}

\* What lastWrite holds after a writer ran.
Wrote(by, lotId) == [by |-> by, lotId |-> lotId]

\* setInterval(simulateUpdate, updateInterval)
SimulateUpdate ==
    /\ \E draws \in [DriftIdx -> DriftDraws] :
          parkingData' = simulateUpdate(parkingData, draws)
    /\ lastWrite' = Wrote("simulateUpdate", "")
    /\ lastPoll' = None
    /\ UNCHANGED <<lastObs, evalVars, hardwareVars, relayVars>>

\* The parking-sensor-update event handler, for one event.
SensorEventOf(lotId, availableSpots) ==
    /\ IF lotId = "" \/ ~availableSpots.isNumber
       THEN UNCHANGED catalogVars
       ELSE /\ parkingData' = applySensorUpdate(parkingData, lotId, availableSpots.n)
            /\ lastWrite' = Wrote("applySensorUpdate", lotId)
            /\ lastObs' = Observe(lastObs, lotId, availableSpots.n)
    /\ lastPoll' = None
    /\ UNCHANGED <<evalVars, hardwareVars, relayVars>>

SensorEvent ==
    \E lotId \in EventLotIds, availableSpots \in SensorValues :
        SensorEventOf(lotId, availableSpots)

\* The lotId of the last entry of a poll answer that is forwarded.
RECURSIVE LastForwarded(_, _)
LastForwarded(entries, sofar) ==
    IF entries = <<>> THEN sofar
    ELSE LastForwarded(Tail(entries),
            IF Forwarded(Head(entries))
            THEN Wrote("applySensorUpdate", Head(entries).lotId) ELSE sofar)

\* What the history keeps of a poll answer: its outcome and, for an answer
\* that was read, the ids whose value is not a number.
PollSummary(res) ==
    [outcome |-> res.outcome,
     skipped |-> {res.data[i].lotId : i \in {j \in 1..Len(res.data) :
                                                ~res.data[j].value.isNumber}}]

\* One run of fetchSensorData (first call and every 5 s after), for one answer.
FetchSensorDataOf(res) ==
    /\ IF res.outcome # "ok"
       THEN UNCHANGED catalogVars
       ELSE /\ parkingData' = ApplyEntries(parkingData, res.data)
            /\ lastObs' = ObserveEntries(lastObs, res.data)
            /\ lastWrite' = LastForwarded(res.data, lastWrite)
    /\ lastPoll' = Some(PollSummary(res))
    /\ UNCHANGED <<evalVars, hardwareVars, relayVars>>

FetchSensorData == \E res \in PollResponses : FetchSensorDataOf(res)

----------------------------------------------------------------------------
(* Temporal rule evaluator: data/parkingData.ts *)

\* parseTime: "HH:MM" split at the colon, hours * 60 + minutes.
parseTime(t) == t[1] * 60 + t[2]

\* date.getHours() * 60 + date.getMinutes()
MinutesOf(d) == d.hours * 60 + d.minutes

\* The callback of operatingHours.some with an inclusive end.
HoursCoverInclusiveEnd(h, day, mins) ==
    IF day \notin h.days THEN FALSE
    ELSE LET start == parseTime(h.start)
             end0 == parseTime(h.end)
             end == IF end0 < start THEN end0 + 24 * 60 ELSE end0
         IN  mins >= start /\ mins <= end

\* The callback of operatingHours.some in isLocationOpen.
HoursCover(h, day, mins) ==
    IF day \notin h.days THEN FALSE
    ELSE LET start == parseTime(h.start)
             end0 == parseTime(h.end)
             end == IF end0 < start THEN end0 + 24 * 60 ELSE end0
         IN  mins >= start /\ mins < end

\* isLocationOpen without the street test: a street follows its windows.
isLocationOpenNoStreetTest(loc, d) ==
    IF loc.operatingHours = None THEN TRUE
    ELSE IF Len(Get(loc.operatingHours)) = 0 THEN TRUE
    ELSE \E k \in 1..Len(Get(loc.operatingHours)) :
            LET h == Get(loc.operatingHours)[k]
                start == parseTime(h.start)
                end0 == parseTime(h.end)
                end == IF end0 < start THEN end0 + 24 * 60 ELSE end0
            IN  d.day \in h.days /\ MinutesOf(d) >= start /\ MinutesOf(d) < end

isLocationOpen(loc, d) ==
    IF loc.type = "street" THEN TRUE
    ELSE IF loc.operatingHours = None THEN TRUE
    ELSE IF Len(Get(loc.operatingHours)) = 0 THEN TRUE
    ELSE LET day == d.day
             mins == MinutesOf(d)
             hours == Get(loc.operatingHours)
         IN  \E k \in 1..Len(hours) : HoursCover(hours[k], day, mins)

\* Two decimal digits.
TwoDigits(n) == IF n < 10 THEN "0" \o ToString(n) ELSE ToString(n)

\* rate.toFixed(2) of an amount held in cents.
ToFixed2(cents) == ToString(cents \div 100) \o "." \o TwoDigits(cents % 100)

\* Template-literal conversion of an amount held in cents (17.5 is "17.5").
NumberString(cents) ==
    ToString(cents \div 100) \o
        (IF cents % 100 = 0 THEN ""
         ELSE IF cents % 10 = 0 THEN "." \o ToString((cents % 100) \div 10)
         ELSE "." \o TwoDigits(cents % 100))

\* The tier test without the default for a missing days field: a tier with
\* no days applies on no day.
TierMatchesDaysRequired(tier, day, mins) ==
    LET days == IF tier.days = None THEN {} ELSE Get(tier.days)
    IN  IF day \notin days THEN FALSE
        ELSE LET start == parseTime(tier.startTime)
                 end0 == parseTime(tier.endTime)
                 end == IF end0 < start THEN end0 + 24 * 60 ELSE end0
             IN  mins >= start /\ mins < end

\* The test getCurrentPrice applies to one tier.
TierMatches(tier, day, mins) ==
    LET days == IF tier.days = None THEN {0, 1, 2, 3, 4, 5, 6} ELSE Get(tier.days)
    IN  IF day \notin days THEN FALSE
        ELSE LET start == parseTime(tier.startTime)
                 end0 == parseTime(tier.endTime)
                 end == IF end0 < start THEN end0 + 24 * 60 ELSE end0
             IN  mins >= start /\ mins < end

\* What getCurrentPrice returns for the tier it matched.
PriceOf(tier) ==
    LET unitLabel == IF tier.unit = "hour" THEN "/hr"
                     ELSE IF tier.unit = "halfhour" THEN "/30 min" ELSE "flat"
        dailyStr == IF tier.dailyMax # None /\ Get(tier.dailyMax) # 0
                    THEN " (max $" \o NumberString(Get(tier.dailyMax)) \o "/day)"
                    ELSE ""
        label == IF tier.rate = 0 THEN "Free"
                 ELSE "$" \o ToFixed2(tier.rate) \o unitLabel \o dailyStr
    IN  [rate |-> tier.rate, unit |-> tier.unit, dailyMax |-> tier.dailyMax,
         label |-> label]

\* The tier loop running from the end of the list: the last match wins.
RECURSIVE PriceFromLast(_, _, _, _)
PriceFromLast(tiers, k, day, mins) ==
    LET j == Len(tiers) + 1 - k
    IN  IF k > Len(tiers) THEN None
        ELSE IF TierMatches(tiers[j], day, mins) THEN Some(PriceOf(tiers[j]))
        ELSE PriceFromLast(tiers, k + 1, day, mins)

\* The for-loop of getCurrentPrice from tier k on: returns at the first match.
RECURSIVE PriceFrom(_, _, _, _)
PriceFrom(tiers, k, day, mins) ==
    IF k > Len(tiers) THEN None
    ELSE IF TierMatches(tiers[k], day, mins) THEN Some(PriceOf(tiers[k]))
    ELSE PriceFrom(tiers, k + 1, day, mins)

getCurrentPrice(loc, d) ==
    IF loc.pricing = None THEN None
    ELSE IF Len(Get(loc.pricing).tiers) = 0 \/ Get(loc.pricing).permitOnly THEN None
    ELSE PriceFrom(Get(loc.pricing).tiers, 1, d.day, MinutesOf(d))

----------------------------------------------------------------------------
(* Status classifier and card: data/parkingData.ts, components/ParkingCard.tsx,
   components/StatusBadge.tsx *)

\* getStatusColor with the 20 % limit excluded.
getStatusColorBelow20(available, total) ==
    IF available = 0 THEN "full"
    ELSE IF available * 100 < 20 * total THEN "low"
    ELSE "available"

\* getStatusColor.  percentage = (available / total) * 100 is compared with 20
\* as the exact quotient; for the counts of the model the double-precision
\* comparison gives the same answer.
getStatusColor(available, total) ==
    IF available = 0 THEN "full"
    ELSE IF available * 100 <= 20 * total THEN "low"
    ELSE "available"

\* The card without the closed override: status and count come from the
\* stored numbers whether the location is open or not.
CardViewStored(loc, isOpen) ==
    [status |-> getStatusColor(loc.availableSpots, loc.totalSpots),
     available |-> loc.availableSpots,
     total |-> loc.totalSpots,
     badge |-> getStatusColor(loc.availableSpots, loc.totalSpots),
     closedLine |-> ~isOpen /\ loc.operatingHours # None]

\* What a ParkingCard shows: its status colour, the count it prints in front
\* of "/ total spots", the status its StatusBadge derives from the available
\* prop, and whether the "Closed" line is rendered.
CardView(loc, isOpen) ==
    LET available == IF isOpen THEN loc.availableSpots ELSE 0
    IN  [status |-> IF isOpen THEN getStatusColor(loc.availableSpots, loc.totalSpots)
                    ELSE "full",
         available |-> available,
         total |-> loc.totalSpots,
         badge |-> getStatusColor(available, loc.totalSpots),
         closedLine |-> ~isOpen /\ loc.operatingHours # None]

----------------------------------------------------------------------------
(* Inputs of the evaluator *)

\* Largest capacity of a constructed location that differs in its counts.
MaxTotal == 10

\* Longest operatingHours list and longest tiers list of a constructed location.
MaxWindows == 2
MaxTiers == 2

SeqsUpTo(S, n) == UNION {[1..k -> S] : k \in 0..n}

WindowTimes == {<<6, 0>>, <<9, 30>>, <<18, 0>>}

Windows ==
    {Hours(days, start, end) :
        days \in {{1}, MON_SAT}, start \in WindowTimes, end \in WindowTimes}

\* Locations that differ in type and operatingHours only.
HoursLocations ==
    {Location("lot-under-test", "lot", 10, 5, hours, None) :
        hours \in {None} \cup {Some(w) : w \in SeqsUpTo(Windows, MaxWindows)}}
    \cup
    {Location("street-under-test", "street", 10, 5, hours, None) :
        hours \in {None} \cup {Some(<<w>>) : w \in Windows}}

TierTimes == {<<<<6, 0>>, <<18, 0>>>>, <<<<18, 0>>, <<6, 0>>>>, <<<<0, 0>>, <<24, 0>>>>}

TierPayloads ==
    {<<200, "hour", None>>, <<400, "flat", None>>, <<175, "halfhour", Some(1750)>>}

Tiers ==
    {Tier(days, t[1], t[2], p[1], p[2], p[3]) :
        days \in {None, Some({1, 2})}, t \in TierTimes, p \in TierPayloads}

\* Always-open lots that differ in pricing only.
PricingLocations ==
    {Location("lot-under-test", "lot", 10, 5, None, pricing) :
        pricing \in {None}
            \cup {Some(Pricing(FALSE, ts)) : ts \in SeqsUpTo(Tiers, MaxTiers)}
            \cup {Some(Pricing(TRUE, <<t>>)) : t \in Tiers}}

\* Lots that differ in capacity and stored count: always open, or open on
\* Mondays 06:00-18:00 only.
CountLocations ==
    UNION {{Location("lot-under-test", "lot", total, available, hours, None) :
                available \in 0..total,
                hours \in {None, Some(<<Hours({1}, <<6, 0>>, <<18, 0>>)>>)}} :
           total \in 1..MaxTotal}

SeedLocations == {BrockSt, ClergyStW, AngroveLot, ChownGarage, BeamishMunroHall}

EvalLocations ==
    SeedLocations \cup HoursLocations \cup PricingLocations
        \cup CountLocations

\* Instants: Sunday, Monday, Tuesday and Saturday, at the clock times around
\* which the windows and tiers above start and end.
Dates ==
    [day : {0, 1, 2, 6},
     hours : {0, 3, 5, 6, 9, 10, 17, 18, 23},
     minutes : {0, 30, 59}]

\* One render of a ParkingCard for the location at the instant.
ParkingCard ==
    /\ openResult' = Some(isLocationOpen(location, date))
    /\ priceResult' = Some(getCurrentPrice(location, date))
    /\ card' = Some(CardView(location, isLocationOpen(location, date)))
    /\ UNCHANGED <<location, date, catalogVars, spots, chatVars, sensorSideVars>>

----------------------------------------------------------------------------
(* Spot markers along a street: getSpotPositions                            *)
(*                                                                         *)
(* The points of a path lie on one meridian and a point is its latitude,   *)
(* counted in steps of one metre of arc, so that the haversine distance    *)
(* of two points is the absolute difference of their latitudes.  A         *)
(* fraction and a computed latitude are exact rationals <<num, den>> with  *)
(* den > 0.                                                                *)

Abs(x) == IF x < 0 THEN -x ELSE x

dist(lat1, lat2) == Abs(lat2 - lat1)

segLengths(path) == [j \in 1..(Len(path) - 1) |-> dist(path[j], path[j + 1])]

RECURSIVE SumTo(_, _)
SumTo(s, n) == IF n = 0 THEN 0 ELSE SumTo(s, n - 1) + s[n]

totalLen(path) == SumTo(segLengths(path), Len(path) - 1)

RatEq(a, b) == a[1] * b[2] = b[1] * a[2]
RatLeq(a, b) == a[1] * b[2] <= b[1] * a[2]

fracClampNone(frac) == frac

\* Math.max(0.2, Math.min(0.8, frac))
fracClamp(frac) ==
    IF RatLeq(<<4, 5>>, frac) THEN <<4, 5>>
    ELSE IF RatLeq(frac, <<1, 5>>) THEN <<1, 5>>
    ELSE frac

\* The segment the inner loop stops at for spot i (0-based): the first one
\* whose far end is at or beyond targetDist = ((i + 0.5) / total) * totalLen,
\* or the last one.  Both sides of the test are multiplied by 2 * total.
SegmentOf(path, total, i) ==
    LET segs == segLengths(path)
        n == Len(segs)
        reaches(j) == SumTo(segs, j) * 2 * total >= (2 * i + 1) * totalLen(path)
    IN  CHOOSE j \in 1..n :
            /\ reaches(j) \/ j = n
            /\ \A k \in 1..(j - 1) : ~reaches(k)

\* Segment and clamped fraction of spot i (0-based).
Placement(path, total, i) ==
    LET segs == segLengths(path)
        j == SegmentOf(path, total, i)
        accumulated == SumTo(segs, j - 1)
        segLen == IF segs[j] = 0 THEN 1 ELSE segs[j]
        frac == <<(2 * i + 1) * totalLen(path) - accumulated * 2 * total,
                  2 * total * segLen>>
    IN  [seg |-> j, frac |-> fracClamp(frac)]

\* p0 + (p1 - p0) * frac
PointAt(path, pl) ==
    [lat |-> <<path[pl.seg] * pl.frac[2]
                   + (path[pl.seg + 1] - path[pl.seg]) * pl.frac[1],
               pl.frac[2]>>]

getSpotPositionsNoLengthTest(loc) ==
    IF loc.path = None \/ Len(Get(loc.path)) < 2 \/ loc.totalSpots <= 0
    THEN <<>>
    ELSE [i \in 1..loc.totalSpots |->
             PointAt(Get(loc.path), Placement(Get(loc.path), loc.totalSpots, i - 1))]

getSpotPositionsAvailable(loc) ==
    IF loc.path = None \/ Len(Get(loc.path)) < 2 \/ loc.totalSpots <= 0
    THEN <<>>
    ELSE IF totalLen(Get(loc.path)) = 0 THEN <<>>
    ELSE [i \in 1..loc.availableSpots |->
             PointAt(Get(loc.path), Placement(Get(loc.path), loc.totalSpots, i - 1))]

getSpotPositions(loc) ==
    IF loc.path = None \/ Len(Get(loc.path)) < 2 \/ loc.totalSpots <= 0
    THEN <<>>
    ELSE IF totalLen(Get(loc.path)) = 0 THEN <<>>
    ELSE [i \in 1..loc.totalSpots |->
             PointAt(Get(loc.path), Placement(Get(loc.path), loc.totalSpots, i - 1))]

\* Most points of a path, largest latitude of a point, largest totalSpots.
MaxPathLen == 3
MaxLat == 3
MaxSpots == 4

Paths == {None} \cup {Some(p) : p \in SeqsUpTo(0..MaxLat, MaxPathLen)}

\* Streets that differ in path, capacity and stored count only.
SpotLocations ==
    UNION {[id : {"street-under-test"}, type : {"street"}, path : Paths,
            totalSpots : {total}, availableSpots : {0, Max(total, 0)},
            operatingHours : {None}, pricing : {None}] :
           total \in (-1)..MaxSpots}

\* One computation of the markers of the location.
GetSpotPositions ==
    /\ spots' = Some(getSpotPositions(location))
    /\ UNCHANGED <<location, date, catalogVars, openResult, priceResult, card,
                   chatVars, sensorSideVars>>

----------------------------------------------------------------------------
(* Question answering: lib/parkingChat.ts                                   *)
(*                                                                         *)
(* A position is its distance in metres north of KINGSTON_CENTER (the      *)
(* lat field); all positions lie on the meridian of KINGSTON_CENTER, so    *)
(* the haversine distance of two positions is the absolute difference of   *)
(* their lat fields.  The questions are a fixed list of strings; a regular *)
(* expression of the source is the set of the normalised questions it      *)
(* matches, and includes() is the table of the pairs it holds for.  In the *)
(* answers, the typographic apostrophe, dashes and bullet of the source    *)
(* are written ', - and *.                                                 *)

RECURSIVE Join(_, _)
Join(strs, sep) ==
    IF strs = <<>> THEN ""
    ELSE IF Len(strs) = 1 THEN strs[1]
    ELSE strs[1] \o sep \o Join(Tail(strs), sep)

\* array.slice(0, n)
Slice(s, n) == SubSeq(s, 1, Min(n, Len(s)))

\* The elements of a set of numbers in ascending order.
RECURSIVE Ascending(_)
Ascending(S) ==
    IF S = {} THEN <<>>
    ELSE LET lo == CHOOSE x \in S : \A y \in S : x <= y
         IN  <<lo>> \o Ascending(S \ {lo})

\* [...new Set(s)]: the first occurrence of each element, in order.
RECURSIVE Distinct(_)
Distinct(s) ==
    IF s = <<>> THEN <<>>
    ELSE LET front == Distinct(SubSeq(s, 1, Len(s) - 1))
         IN  IF s[Len(s)] \in Range(front) THEN front
             ELSE Append(front, s[Len(s)])

\* Array.prototype.sort on <<item, key>> pairs, ascending by key and stable.
RECURSIVE InsertByKey(_, _)
InsertByKey(sorted, x) ==
    IF sorted = <<>> THEN <<x>>
    ELSE IF x[2] < Head(sorted)[2] THEN <<x>> \o sorted
    ELSE <<Head(sorted)>> \o InsertByKey(Tail(sorted), x)

RECURSIVE SortByKey(_)
SortByKey(pairs) ==
    IF pairs = <<>> THEN <<>>
    ELSE InsertByKey(SortByKey(SubSeq(pairs, 1, Len(pairs) - 1)), pairs[Len(pairs)])

\* Math.round of num / den, den > 0, num >= 0.
Round(num, den) == (2 * num + den) \div (2 * den)

haversineDistance(lat1, lat2) == Abs(lat2 - lat1)

\* getHoursDisplay: the windows grouped by equal start and end, in the
\* order of first appearance (the reduce over operatingHours up to window k).
RECURSIVE HoursGroups(_, _)
HoursGroups(hours, k) ==
    IF k = 0 THEN <<>>
    ELSE LET acc == HoursGroups(hours, k - 1)
             curr == hours[k]
             same == {i \in 1..Len(acc) :
                         acc[i].start = curr.start /\ acc[i].end = curr.end}
         IN  IF same # {}
             THEN LET i == CHOOSE i \in same : \A j \in same : i <= j
                  IN  [acc EXCEPT ![i].days = Distinct(@ \o Ascending(curr.days))]
             ELSE Append(acc, [days |-> Ascending(curr.days),
                               start |-> curr.start, end |-> curr.end])

dayNames == <<"Sun", "Mon", "Tue", "Wed", "Thu", "Fri", "Sat">>

fmt(t) ==
    LET h == t[1]
        hr == IF h >= 12 THEN (IF h = 12 THEN 12 ELSE h - 12)
              ELSE IF h = 0 THEN 12 ELSE h
    IN  ToString(hr) \o ":" \o TwoDigits(t[2]) \o " "
            \o (IF h >= 12 THEN "p.m." ELSE "a.m.")

getHoursDisplay(loc) ==
    IF loc.operatingHours = None \/ Len(Get(loc.operatingHours)) = 0
    THEN "24 hours"
    ELSE LET groups == HoursGroups(Get(loc.operatingHours),
                                   Len(Get(loc.operatingHours)))
             text(g) ==
                 LET dayStr == IF Len(g.days) = 7 THEN "Daily"
                               ELSE Join([i \in 1..Len(g.days) |->
                                             dayNames[g.days[i] + 1]], ", ")
                 IN  dayStr \o " " \o fmt(g.start) \o "-" \o fmt(g.end)
         IN  Join([i \in 1..Len(groups) |-> text(groups[i])], "; ")

\* A catalogue entry with the name and position the chat reads.
Placed(loc, name, lat) ==
    [id |-> loc.id, name |-> name, type |-> loc.type, lat |-> lat,
     totalSpots |-> loc.totalSpots, availableSpots |-> loc.availableSpots,
     operatingHours |-> loc.operatingHours, pricing |-> loc.pricing]

KINGSTON_CENTER == [lat |-> 0]

LANDMARKS ==
    <<[key |-> "queen's", lat |-> -278, label |-> "Queen's University"],
      [key |-> "queens", lat |-> -278, label |-> "Queen's University"],
      [key |-> "university", lat |-> -278, label |-> "Queen's University"],
      [key |-> "waterfront", lat |-> -578, label |-> "Kingston Waterfront"],
      [key |-> "hospital", lat |-> -189,
       label |-> "Kingston General Hospital (KGH)"],
      [key |-> "kgh", lat |-> -189, label |-> "Kingston General Hospital"],
      [key |-> "downtown", lat |-> KINGSTON_CENTER.lat,
       label |-> "downtown Kingston"]>>

NEAR_RADIUS_M == 400

\* Questions as typed.
Questions ==
    {"", "   ", "Help", "?", "has a spot just opened?",
     "why does the map say full?", "when is it usually busy?",
     "is the lot filling up?", "parking near queen's",
     "show me the waterfront", "Is KGH far?", "restaurants on princess",
     "Where is the closest available parking to me?", "  Nearest  ",
     "closest to me", "nearest parking downtown",
     "which street has the most available?",
     "what streets if beamish munro is full?", "parking lot a",
     "how many spots on brock?",
     "how many spots are available in angrove?", "is brock full?",
     "is angrove full?", "how many total spots in chown garage?",
     "how many cars in chown garage?", "spots left in angrove",
     "what percentage full is beamish munro", "is brock free?",
     "free parking", "any spots on brock?", "any spots?",
     "no space on brock", "rate on brock", "how much is chown garage?",
     "brock", "angrove", "princess", "street", "what is the weather?",
     "tell me a joke", "highest availability",
     "is there free parking on princess?", "is the lot free?",
     "is it free?", "brock street", "how many spots are available",
     "is it full?", "any spots on princess?"}

\* question.trim().toLowerCase() of each question above.
Normalised ==
    {<<"   ", "">>, <<"Help", "help">>, <<"Is KGH far?", "is kgh far?">>,
     <<"Where is the closest available parking to me?", "where is the closest available parking to me?">>,
     <<"  Nearest  ", "nearest">>}

\* name.toLowerCase() of each location name.
LowerCased ==
    {<<"Brock Street", "brock street">>, <<"Angrove Lot", "angrove lot">>,
     <<"Chown Memorial Garage", "chown memorial garage">>,
     <<"Beamish Munro Hall", "beamish munro hall">>,
     <<"Clergy St W", "clergy st w">>,
     <<"Princess Street", "princess street">>,
     <<"King Street East", "king street east">>,
     <<"Free Sunday Lot", "free sunday lot">>}

\* The pairs <<s, part>> with s.includes(part), for s a normalised question
\* or a lower-cased name and part a keyword, landmark key or trigger word.
Included ==
    {<<"is the lot filling up?", "lot">>,
     <<"parking near queen's", "king">>,
     <<"parking near queen's", "queen's">>,
     <<"parking near queen's", "near">>,
     <<"parking near queen's", "parking">>,
     <<"show me the waterfront", "waterfront">>,
     <<"show me the waterfront", "show">>, <<"is kgh far?", "kgh">>,
     <<"restaurants on princess", "princess">>,
     <<"where is the closest available parking to me?", "king">>,
     <<"where is the closest available parking to me?", "close">>,
     <<"where is the closest available parking to me?", "parking">>,
     <<"nearest", "near">>, <<"closest to me", "close">>,
     <<"nearest parking downtown", "king">>,
     <<"nearest parking downtown", "downtown">>,
     <<"nearest parking downtown", "near">>,
     <<"nearest parking downtown", "parking">>,
     <<"which street has the most available?", "street">>,
     <<"what streets if beamish munro is full?", "beamish munro">>,
     <<"what streets if beamish munro is full?", "street">>,
     <<"what streets if beamish munro is full?", "beamish">>,
     <<"parking lot a", "king">>, <<"parking lot a", "lot">>,
     <<"parking lot a", "parking">>,
     <<"how many spots on brock?", "brock">>,
     <<"how many spots are available in angrove?", "angrove">>,
     <<"is brock full?", "brock">>, <<"is angrove full?", "angrove">>,
     <<"how many total spots in chown garage?", "chown garage">>,
     <<"how many total spots in chown garage?", "garage">>,
     <<"how many total spots in chown garage?", "chown">>,
     <<"how many cars in chown garage?", "chown garage">>,
     <<"how many cars in chown garage?", "garage">>,
     <<"how many cars in chown garage?", "chown">>,
     <<"spots left in angrove", "angrove">>,
     <<"what percentage full is beamish munro", "beamish munro">>,
     <<"what percentage full is beamish munro", "beamish">>,
     <<"is brock free?", "brock">>, <<"free parking", "king">>,
     <<"free parking", "parking">>, <<"any spots on brock?", "brock">>,
     <<"no space on brock", "brock">>, <<"rate on brock", "brock">>,
     <<"how much is chown garage?", "chown garage">>,
     <<"how much is chown garage?", "garage">>,
     <<"how much is chown garage?", "chown">>, <<"brock", "brock">>,
     <<"angrove", "angrove">>, <<"princess", "princess">>,
     <<"street", "street">>,
     <<"is there free parking on princess?", "princess">>,
     <<"is there free parking on princess?", "king">>,
     <<"is there free parking on princess?", "parking">>,
     <<"is the lot free?", "lot">>, <<"brock street", "brock">>,
     <<"brock street", "street">>,
     <<"any spots on princess?", "princess">>,
     <<"brock street", "brock">>, <<"brock street", "street">>,
     <<"angrove lot", "angrove">>, <<"angrove lot", "lot">>,
     <<"chown memorial garage", "garage">>,
     <<"chown memorial garage", "chown">>,
     <<"beamish munro hall", "beamish munro">>,
     <<"beamish munro hall", "beamish">>, <<"clergy st w", "clergy">>,
     <<"princess street", "princess">>, <<"princess street", "street">>,
     <<"king street east", "king street">>,
     <<"king street east", "king">>, <<"king street east", "street">>,
     <<"free sunday lot", "lot">>}

\* /^(help|what can you do|hi|hello)\b/.test(q) || q === "?"
askHelp(q) ==
    q \in {"help", "?"}

\* /just opened|spot (just )?opened|opened up/.test(q)
askJustOpened(q) ==
    q \in {"has a spot just opened?"}

\* /why does the map say full|map say full but I see empty|say full but.*empty|empty spot/.test(q)
askWhyFull(q) ==
    q \in {"why does the map say full?"}

\* /usually busy|best time to find|get worse or better|next hour|prediction|predict/.test(q)
askPrediction(q) ==
    q \in {"when is it usually busy?"}

\* /filling up|emptying|emptying out|trend/.test(q)
askTrend(q) ==
    q \in {"is the lot filling up?"}

\* /restaurants on princess|princess street.*restaurant|eating on princess/.test(q)
askRestaurants(q) ==
    q \in {"restaurants on princess"}

\* /closest (available )?parking|closest (to )?me|nearest|parking (closest )?to me/.test(q)
askClosest(q) ==
    q \in {"where is the closest available parking to me?", "nearest",
          "closest to me", "nearest parking downtown"}

\* /which (street|lot) has the most|most available|highest availability/.test(q)
askMost(q) ==
    q \in {"which street has the most available?", "highest availability"}

\* /what streets (should I )?check|if .* (is )?full|lot (is )?full.*(where|what|check)/.test(q)
askIfFull(q) ==
    q \in {"what streets if beamish munro is full?"}

\* /\bparking lot [a-c]\b|lot [a-c](\s|$)/.test(q)
askLotLetter(q) ==
    q \in {"parking lot a"}

\* /how many (parking )?spots (are )?available|how many (spots )?(are )?(there )?(on|in)/.test(q)
askHowMany(q) ==
    q \in {"how many spots on brock?",
          "how many spots are available in angrove?",
          "how many spots are available"}

\* /is .* full\???\s*$|full\??\s*$/.test(q)
askIsFull(q) ==
    q \in {"why does the map say full?",
          "what streets if beamish munro is full?", "is brock full?",
          "is angrove full?", "is it full?"}

\* /lot|garage/.test(q)
askLotOrGarage(q) ==
    q \in {"is the lot filling up?", "parking lot a",
          "how many total spots in chown garage?",
          "how many cars in chown garage?", "how much is chown garage?",
          "is the lot free?"}

\* /how many total spots|total spots (are )?(in|at)/.test(q)
askTotalSpots(q) ==
    q \in {"how many total spots in chown garage?"}

\* /how many cars|cars (are )?currently|currently (in|parked)/.test(q)
askCars(q) ==
    q \in {"how many cars in chown garage?"}

\* /spots (left|remaining)|how many (spots )?left/.test(q)
askSpotsLeft(q) ==
    q \in {"spots left in angrove"}

\* /what percentage|percent(age)? (is )?full|% full/.test(q)
askPercent(q) ==
    q \in {"what percentage full is beamish munro"}

\* /free|no cost|don't pay|no pay|complimentary/.test(q)
askFree(q) ==
    q \in {"is brock free?", "free parking",
          "is there free parking on princess?", "is the lot free?",
          "is it free?"}

\* /available|any spots?|open spots?|vacant|(is there )?any( space)?|spots? (left|open)|(any )?space/.test(q)
askAvailable(q) ==
    q \in {"where is the closest available parking to me?",
          "which street has the most available?", "how many spots on brock?",
          "how many spots are available in angrove?",
          "how many total spots in chown garage?",
          "how many cars in chown garage?", "spots left in angrove",
          "any spots on brock?", "any spots?", "no space on brock",
          "how many spots are available", "any spots on princess?"}

\* /full|no space|no spots?|any room/.test(q)
askFull(q) ==
    q \in {"why does the map say full?",
          "what streets if beamish munro is full?", "is brock full?",
          "is angrove full?", "what percentage full is beamish munro",
          "no space on brock", "is it full?"}

\* /rate|price|cost|how much|pay|fee/.test(q)
askRate(q) ==
    q \in {"rate on brock", "how much is chown garage?"}

\* question.trim().toLowerCase()
normalise(question) ==
    IF \E p \in Normalised : p[1] = question
    THEN (CHOOSE p \in Normalised : p[1] = question)[2]
    ELSE question

toLowerCase(name) == (CHOOSE p \in LowerCased : p[1] = name)[2]

includes(s, part) == <<s, part>> \in Included

NAME_KEYWORDS ==
    <<"beamish munro", "chown garage", "hanson garage", "waterfront",
      "princess", "king street", "king", "brock", "ontario", "division",
      "wellington", "clergy", "barrack", "angrove", "library", "mckee",
      "garage", "lot", "street">>

\* The match predicate of a NAME_KEYWORDS entry.
match(keyword, l) ==
    LET name == toLowerCase(l.name)
    IN  CASE keyword = "beamish munro" ->
                 l.id = "beamish-munro-hall" \/ includes(name, "beamish")
          [] keyword = "chown garage" ->
                 l.id = "chown-garage" \/ (includes(name, "chown") /\ l.type = "lot")
          [] keyword = "hanson garage" ->
                 l.id = "hanson-garage" \/ includes(name, "hanson")
          [] keyword = "waterfront" ->
                 l.id = "waterfront-lot" \/ includes(name, "waterfront")
          [] keyword = "princess" ->
                 includes(name, "princess") \/ l.id = "princess-st"
          [] keyword = "king street" -> includes(name, "king")
          [] keyword = "lot" -> l.type = "lot"
          [] keyword = "street" -> l.type = "street"
          [] OTHER -> includes(name, keyword)

\* The loop of findLocationsByQuestion from keyword k on.
RECURSIVE FindFrom(_, _, _, _, _)
FindFrom(locations, q, k, filtered, matchedName) ==
    IF k > Len(NAME_KEYWORDS)
    THEN [filtered |-> filtered, matchedName |-> matchedName]
    ELSE IF includes(q, NAME_KEYWORDS[k])
    THEN LET f == SelectSeq(locations, LAMBDA l : match(NAME_KEYWORDS[k], l))
         IN  IF Len(f) > 0
             THEN [filtered |-> f, matchedName |-> Some(NAME_KEYWORDS[k])]
             ELSE FindFrom(locations, q, k + 1, f, Some(NAME_KEYWORDS[k]))
    ELSE FindFrom(locations, q, k + 1, filtered, matchedName)

\* The loop without its break: the last keyword that occurs decides.
RECURSIVE FindLast(_, _, _, _, _)
FindLast(locations, q, k, filtered, matchedName) ==
    IF k > Len(NAME_KEYWORDS)
    THEN [filtered |-> filtered, matchedName |-> matchedName]
    ELSE IF includes(q, NAME_KEYWORDS[k])
    THEN FindLast(locations, q, k + 1,
                  SelectSeq(locations, LAMBDA l : match(NAME_KEYWORDS[k], l)),
                  Some(NAME_KEYWORDS[k]))
    ELSE FindLast(locations, q, k + 1, filtered, matchedName)

findLocationsByQuestionLastWins(locations, q) ==
    FindLast(locations, q, 1, locations, None)

findLocationsByQuestion(locations, q) == FindFrom(locations, q, 1, locations, None)

filterByLandmark(locations, lm) ==
    SelectSeq(locations,
        LAMBDA loc : haversineDistance(loc.lat, lm.lat) <= NEAR_RADIUS_M)

Names(locs) == [i \in 1..Len(locs) |-> locs[i].name]

\* The locations that are open and have a spot, in catalogue order.
WithSpots(locations, now) ==
    SelectSeq(locations, LAMBDA l : isLocationOpen(l, now) /\ l.availableSpots > 0)

\* The locations that are open and have no spot, in catalogue order.
OpenAndFull(locations, now) ==
    SelectSeq(locations, LAMBDA l : isLocationOpen(l, now) /\ l.availableSpots = 0)

Plural(n) == IF n # 1 THEN "s" ELSE ""

ClosedWithHours(loc) ==
    loc.name \o " is currently closed. " \o getHoursDisplay(loc) \o "."

EmptyPrompt ==
    "Ask me about parking in downtown Kingston! Try: \"How many spots on Princess Street?\" or \"Is there parking near Queen's University?\""

HelpText ==
    "I can answer:\n* \"How many spots on Princess Street?\" / \"Is King Street full?\"\n* \"Any free street parking downtown?\" / \"Which street has the most available?\"\n* \"Where is the closest available parking to me?\" (search an address first)\n* \"How many spots in the Chown garage?\" / \"What % of Beamish Munro is full?\"\n* \"Parking near Queen's University?\" / \"Near the Waterfront?\"\n* \"What streets if the lot is full?\"\n* \"Why does the map say full but I see an empty spot?\""

SearchFirst ==
    "Search for an address on the map first-then I can tell you the closest available parking to that spot."

NoSpotsNearYou ==
    "No spots are available right now near you. Try expanding your search on the map or another time."

GenericHelp ==
    "Ask something like: \"How many spots on Princess?\" or \"Is there parking near Queen's?\" I use live data from the map."

\* Each branch below is one return site of answerParkingQuestion, or one
\* group of them: the answer it gives, or None when the function goes on.

emptyAnswer(q) == IF q = "" THEN Some(EmptyPrompt) ELSE None

helpAnswer(q) == IF askHelp(q) THEN Some(HelpText) ELSE None

fixedAnswer(q) ==
    IF askJustOpened(q)
    THEN Some("We update every few seconds from sensors. If a spot just opened, the map will show it shortly. Try refreshing or wait a few seconds.")
    ELSE IF askWhyFull(q)
    THEN Some("Sensors can lag by a few seconds, or someone may have just left. The map updates every 5-10 seconds. If you see an empty spot, it may have opened after the last update-check the map again for the latest.")
    ELSE IF askPrediction(q)
    THEN Some("We don't have historical patterns or predictions-only live availability. Mornings and weekends are often easier downtown. Use the map for current spots.")
    ELSE IF askTrend(q)
    THEN Some("We don't track whether a lot is filling up or emptying in real time-only how many spots are available right now. Check the map for current counts.")
    ELSE None

hasTrigger(q) ==
    includes(q, "near") \/ includes(q, "close") \/ includes(q, "parking")
        \/ includes(q, "show")

\* The landmark answer that lists every location with a spot.
landmarkAnswerUnsliced(locations, q, now) ==
    LET keys == {k \in 1..Len(LANDMARKS) :
                    includes(q, LANDMARKS[k].key) /\ hasTrigger(q)}
    IN  IF keys = {} THEN None
        ELSE LET lm == LANDMARKS[CHOOSE k \in keys : \A j \in keys : k <= j]
                 near == filterByLandmark(locations, lm)
                 withSpots == WithSpots(near, now)
                 shown == withSpots
             IN  IF Len(withSpots) > 0
                 THEN Some("Near " \o lm.label \o ": "
                          \o Join([i \in 1..Len(shown) |->
                                      shown[i].name \o " ("
                                          \o ToString(shown[i].availableSpots)
                                          \o " available)"], "; ")
                          \o ". See the map for directions.")
                 ELSE IF Len(near) > 0
                 THEN Some("Near " \o lm.label \o " we have: "
                          \o Join(Names(Slice(near, 5)), ", ")
                          \o ". Right now none show available spots-check the map for live updates.")
                 ELSE Some("We don't have parking data right at " \o lm.label
                          \o ". Try searching an address on the map to see nearby options.")

landmarkAnswer(locations, q, now) ==
    LET keys == {k \in 1..Len(LANDMARKS) :
                    includes(q, LANDMARKS[k].key) /\ hasTrigger(q)}
    IN  IF keys = {} THEN None
        ELSE LET lm == LANDMARKS[CHOOSE k \in keys : \A j \in keys : k <= j]
                 near == filterByLandmark(locations, lm)
                 withSpots == WithSpots(near, now)
                 shown == Slice(withSpots, 6)
             IN  IF Len(withSpots) > 0
                 THEN Some("Near " \o lm.label \o ": "
                          \o Join([i \in 1..Len(shown) |->
                                      shown[i].name \o " ("
                                          \o ToString(shown[i].availableSpots)
                                          \o " available)"], "; ")
                          \o ". See the map for directions.")
                 ELSE IF Len(near) > 0
                 THEN Some("Near " \o lm.label \o " we have: "
                          \o Join(Names(Slice(near, 5)), ", ")
                          \o ". Right now none show available spots-check the map for live updates.")
                 ELSE Some("We don't have parking data right at " \o lm.label
                          \o ". Try searching an address on the map to see nearby options.")

restaurantsAnswer(locations, q, now) ==
    LET princess == SelectSeq(locations,
                        LAMBDA l : includes(toLowerCase(l.name), "princess"))
    IN  IF askRestaurants(q) /\ Len(princess) > 0
        THEN LET p == princess[1]
                 status == IF isLocationOpen(p, now)
                           THEN ToString(p.availableSpots) \o " of "
                                    \o ToString(p.totalSpots)
                                    \o " spots available on Princess Street."
                           ELSE "Princess Street parking is currently outside paid hours."
             IN  Some(status \o " Street parking runs along Princess-check the map for the exact stretch.")
        ELSE None

closestAnswerUnfiltered(locations, q, now, userLocation) ==
    IF ~askClosest(q) THEN None
    ELSE IF userLocation = None THEN Some(SearchFirst)
    ELSE LET u == Get(userLocation)
             withSpots == locations
         IN  IF Len(withSpots) = 0 THEN Some(NoSpotsNearYou)
             ELSE LET sorted == SortByKey([i \in 1..Len(withSpots) |->
                                    <<withSpots[i],
                                      haversineDistance(u.lat, withSpots[i].lat)>>])
                      top == sorted[1][1]
                      metres == Round(haversineDistance(u.lat, top.lat), 1)
                  IN  Some("Closest available: " \o top.name \o " ("
                           \o ToString(top.availableSpots) \o " spots), about "
                           \o ToString(metres)
                           \o " m away. Check the map for the exact location.")

closestAnswerAtCentre(locations, q, now, userLocation) ==
    IF ~askClosest(q) THEN None
    ELSE LET u == IF userLocation = None THEN KINGSTON_CENTER ELSE Get(userLocation)
             withSpots == WithSpots(locations, now)
         IN  IF Len(withSpots) = 0 THEN Some(NoSpotsNearYou)
             ELSE LET sorted == SortByKey([i \in 1..Len(withSpots) |->
                                    <<withSpots[i],
                                      haversineDistance(u.lat, withSpots[i].lat)>>])
                      top == sorted[1][1]
                      metres == Round(haversineDistance(u.lat, top.lat), 1)
                  IN  Some("Closest available: " \o top.name \o " ("
                           \o ToString(top.availableSpots) \o " spots), about "
                           \o ToString(metres)
                           \o " m away. Check the map for the exact location.")

closestAnswer(locations, q, now, userLocation) ==
    IF ~askClosest(q) THEN None
    ELSE IF userLocation = None THEN Some(SearchFirst)
    ELSE LET u == Get(userLocation)
             withSpots == WithSpots(locations, now)
         IN  IF Len(withSpots) = 0 THEN Some(NoSpotsNearYou)
             ELSE LET sorted == SortByKey([i \in 1..Len(withSpots) |->
                                    <<withSpots[i],
                                      haversineDistance(u.lat, withSpots[i].lat)>>])
                      top == sorted[1][1]
                      metres == Round(haversineDistance(u.lat, top.lat), 1)
                  IN  Some("Closest available: " \o top.name \o " ("
                           \o ToString(top.availableSpots) \o " spots), about "
                           \o ToString(metres)
                           \o " m away. Check the map for the exact location.")

\* [...locs].sort((a, b) => b.availableSpots - a.availableSpots)[0]
MostAvailable(locs) ==
    SortByKey([i \in 1..Len(locs) |-> <<locs[i], 0 - locs[i].availableSpots>>])[1][1]

\* The most-available answer that ranks streets and lots together.
mostAnswerAnyType(locations, q, now) ==
    LET streets == WithSpots(locations, now)
    IN  IF ~askMost(q) THEN None
        ELSE IF Len(streets) > 0
        THEN Some(MostAvailable(streets).name \o " has the most right now: "
                 \o ToString(MostAvailable(streets).availableSpots)
                 \o " spots available.")
        ELSE Some("No streets or lots with available spots right now. Check the map for updates.")

mostAnswer(locations, q, now) ==
    LET streets == SelectSeq(WithSpots(locations, now), LAMBDA l : l.type = "street")
        lotsWithSpots == SelectSeq(WithSpots(locations, now), LAMBDA l : l.type = "lot")
    IN  IF ~askMost(q) THEN None
        ELSE IF Len(streets) > 0
        THEN Some(MostAvailable(streets).name \o " has the most right now: "
                 \o ToString(MostAvailable(streets).availableSpots)
                 \o " spots available.")
        ELSE IF Len(lotsWithSpots) > 0
        THEN Some(MostAvailable(lotsWithSpots).name \o " has the most available: "
                 \o ToString(MostAvailable(lotsWithSpots).availableSpots)
                 \o " spots.")
        ELSE Some("No streets or lots with available spots right now. Check the map for updates.")

ifFullAnswer(locations, q, now) ==
    LET filtered == findLocationsByQuestion(locations, q).filtered
        full == OpenAndFull(filtered, now)
    IN  IF ~askIfFull(q) THEN None
        ELSE IF Len(full) > 0
        THEN LET withSpots == SelectSeq(WithSpots(locations, now),
                                  LAMBDA l : l.id # full[1].id)
             IN  Some("If " \o full[1].name \o " is full, try: "
                      \o Join(Names(Slice(withSpots, 6)), ", ")
                      \o ". See the map for distances.")
        ELSE Some("Places with spots right now: "
                 \o Join(Names(Slice(WithSpots(locations, now), 6)), ", ")
                 \o ".")

lotLetterAnswer(filtered, q) ==
    IF askLotLetter(q) /\ Len(filtered) = 0
    THEN Some("We use actual names, not letters. Try: \"Beamish Munro Hall\", \"Chown Memorial Garage\", \"Waterfront Lot\", or \"Hanson Garage.\"")
    ELSE None

howManyAnswer(filtered, q, now) ==
    IF askHowMany(q) /\ Len(filtered) > 0
    THEN LET loc == filtered[1]
         IN  IF ~isLocationOpen(loc, now) THEN Some(ClosedWithHours(loc))
             ELSE Some("Right now there are " \o ToString(loc.availableSpots)
                      \o " spot" \o Plural(loc.availableSpots)
                      \o " available on " \o loc.name \o " ("
                      \o ToString(loc.totalSpots) \o " total).")
    ELSE None

isFullAnswer(filtered, q, now) ==
    IF askIsFull(q) /\ Len(filtered) > 0
    THEN LET loc == filtered[1]
         IN  IF ~isLocationOpen(loc, now) THEN Some(ClosedWithHours(loc))
             ELSE IF loc.availableSpots = 0
             THEN Some("Yes, " \o loc.name \o " is full right now ("
                      \o ToString(loc.totalSpots) \o " spots, 0 available).")
             ELSE Some("No. " \o loc.name \o " has "
                      \o ToString(loc.availableSpots) \o " spot"
                      \o Plural(loc.availableSpots) \o " available.")
    ELSE None

lotStatsAnswer(filtered, q, now) ==
    IF Len(filtered) > 0 /\ (filtered[1].type = "lot" \/ askLotOrGarage(q))
    THEN LET loc == filtered[1]
             total == loc.totalSpots
             available == loc.availableSpots
             occupied == total - available
         IN  IF askTotalSpots(q)
             THEN Some(loc.name \o " has " \o ToString(total) \o " total spots.")
             ELSE IF askCars(q)
             THEN IF ~isLocationOpen(loc, now)
                  THEN Some(loc.name \o " is closed. We don't track car count when closed.")
                  ELSE Some("There are " \o ToString(occupied)
                           \o " cars currently in " \o loc.name \o " ("
                           \o ToString(available) \o " spots left).")
             ELSE IF askSpotsLeft(q)
             THEN IF ~isLocationOpen(loc, now) THEN Some(ClosedWithHours(loc))
                  ELSE Some("There are " \o ToString(available)
                           \o " spots left in " \o loc.name \o " (out of "
                           \o ToString(total) \o ").")
             ELSE IF askPercent(q)
             THEN IF ~isLocationOpen(loc, now)
                  THEN Some(loc.name \o " is closed. " \o getHoursDisplay(loc) \o ".")
                  ELSE LET pct == IF total > 0 THEN Round(occupied * 100, total) ELSE 0
                       IN  Some(loc.name \o " is " \o ToString(pct) \o "% full ("
                                \o ToString(occupied) \o " of " \o ToString(total)
                                \o " spots taken).")
             ELSE None
    ELSE None

chatDayNames ==
    <<"Sunday", "Monday", "Tuesday", "Wednesday", "Thursday", "Friday", "Saturday">>

\* Open, with a current price whose rate is exactly 0.
FreeNow(loc, now) ==
    /\ isLocationOpen(loc, now)
    /\ getCurrentPrice(loc, now) # None
    /\ Get(getCurrentPrice(loc, now)).rate = 0

freeAnswer(locations, filtered, q, now) ==
    LET freeNow == SelectSeq(filtered, LAMBDA loc : FreeNow(loc, now))
        allFreeNow == SelectSeq(locations, LAMBDA loc : FreeNow(loc, now))
    IN  IF ~askFree(q) THEN None
        ELSE IF Len(freeNow) > 0
        THEN Some("Yes. Right now these have free parking: "
                 \o Join(Names(freeNow), ", ") \o ".")
        ELSE IF Len(filtered) > 0
        THEN LET first == filtered[1]
                 price == getCurrentPrice(first, now)
             IN  IF price # None /\ Get(price).rate = 0
                 THEN Some("Yes, " \o first.name \o " is free right now.")
                 ELSE Some("Right now it's paid on " \o chatDayNames[now.day + 1]
                          \o ". Many downtown streets (Princess, King, Brock, Division, Ontario, Wellington, Clergy) are free on Sundays.")
        ELSE IF Len(allFreeNow) > 0
        THEN Some("Yes. Free right now: "
                 \o Join(Names(Slice(allFreeNow, 8)), ", ") \o ".")
        ELSE Some("No free street parking right now. Many downtown streets are free on Sundays.")

\* The available/full answer that does not look at the resolved subset
\* before saying it could not find the place.
availableAnswerNoSubsetTest(filtered, q, now) ==
    LET openWithSpots == WithSpots(filtered, now)
        full == OpenAndFull(filtered, now)
    IN  IF ~(askAvailable(q) \/ askFull(q)) THEN None
        ELSE IF askFull(q) /\ Len(full) > 0
        THEN Some("These are full: "
                 \o Join([i \in 1..Len(full) |->
                             full[i].name \o " ("
                                 \o ToString(full[i].availableSpots) \o "/"
                                 \o ToString(full[i].totalSpots) \o ")"], ", ")
                 \o ".")
        ELSE IF Len(openWithSpots) > 0
        THEN Some("Yes. "
                 \o Join([i \in 1..Len(openWithSpots) |->
                             openWithSpots[i].name \o ": "
                                 \o ToString(openWithSpots[i].availableSpots)
                                 \o " available"], ". "))
        ELSE Some("I couldn't find that street or lot. Try Princess, King, Brock, Ontario, or Beamish Munro.")

availableAnswer(filtered, q, now) ==
    LET openWithSpots == WithSpots(filtered, now)
        full == OpenAndFull(filtered, now)
    IN  IF ~(askAvailable(q) \/ askFull(q)) THEN None
        ELSE IF askFull(q) /\ Len(full) > 0
        THEN Some("These are full: "
                 \o Join([i \in 1..Len(full) |->
                             full[i].name \o " ("
                                 \o ToString(full[i].availableSpots) \o "/"
                                 \o ToString(full[i].totalSpots) \o ")"], ", ")
                 \o ".")
        ELSE IF Len(openWithSpots) > 0
        THEN Some("Yes. "
                 \o Join([i \in 1..Len(openWithSpots) |->
                             openWithSpots[i].name \o ": "
                                 \o ToString(openWithSpots[i].availableSpots)
                                 \o " available"], ". "))
        ELSE IF Len(filtered) > 0
        THEN Some("Right now there are no spots available at "
                 \o Join(Names(filtered), ", ")
                 \o ". Try the map for other options.")
        ELSE Some("I couldn't find that street or lot. Try Princess, King, Brock, Ontario, or Beamish Munro.")

rateAnswer(filtered, q, now) ==
    IF askRate(q) /\ Len(filtered) > 0
    THEN LET loc == filtered[1]
             price == getCurrentPrice(loc, now)
             hours == getHoursDisplay(loc)
         IN  IF price # None
             THEN Some(loc.name \o ": " \o Get(price).label \o ". Hours: "
                      \o hours \o ".")
             ELSE Some(loc.name \o ": no casual rate (permit or closed). Hours: "
                      \o hours \o ".")
    ELSE None

\* The one-location summary given for any non-empty filtered list, whether
\* or not a keyword was matched.
summaryAnswerUnmatched(filtered, matchedName, now) ==
    IF Len(filtered) > 0
    THEN LET loc == filtered[1]
             price == getCurrentPrice(loc, now)
             status == IF isLocationOpen(loc, now)
                       THEN ToString(loc.availableSpots) \o " of "
                                \o ToString(loc.totalSpots) \o " spots available"
                       ELSE "currently closed"
             rate == IF price # None THEN " " \o Get(price).label \o "." ELSE ""
         IN  Some(loc.name \o ": " \o status \o "." \o rate \o " "
                  \o getHoursDisplay(loc) \o ".")
    ELSE None

summaryAnswer(filtered, matchedName, now) ==
    IF matchedName # None /\ Len(filtered) > 0
    THEN LET loc == filtered[1]
             price == getCurrentPrice(loc, now)
             status == IF isLocationOpen(loc, now)
                       THEN ToString(loc.availableSpots) \o " of "
                                \o ToString(loc.totalSpots) \o " spots available"
                       ELSE "currently closed"
             rate == IF price # None THEN " " \o Get(price).label \o "." ELSE ""
         IN  Some(loc.name \o ": " \o status \o "." \o rate \o " "
                  \o getHoursDisplay(loc) \o ".")
    ELSE None

unknownAnswer(filtered, matchedName) ==
    IF Len(filtered) = 0 /\ matchedName # None
    THEN Some("I don't have that street or lot. We cover downtown Kingston-try Princess, King, Brock, Ontario, Beamish Munro, or Chown Garage.")
    ELSE None

\* The return sites in the order the function reaches them.
Branches(locations, question, now, userLocation) ==
    LET q == normalise(question)
        found == findLocationsByQuestion(locations, q)
        filtered == found.filtered
        matchedName == found.matchedName
    IN  <<emptyAnswer(q),
          helpAnswer(q),
          fixedAnswer(q),
          landmarkAnswer(locations, q, now),
          restaurantsAnswer(locations, q, now),
          closestAnswer(locations, q, now, userLocation),
          mostAnswer(locations, q, now),
          ifFullAnswer(locations, q, now),
          lotLetterAnswer(filtered, q),
          howManyAnswer(filtered, q, now),
          isFullAnswer(filtered, q, now),
          lotStatsAnswer(filtered, q, now),
          freeAnswer(locations, filtered, q, now),
          availableAnswer(filtered, q, now),
          rateAnswer(filtered, q, now),
          summaryAnswer(filtered, matchedName, now),
          unknownAnswer(filtered, matchedName)>>

answerParkingQuestion(locations, question, now, userLocation) ==
    LET branches == Branches(locations, question, now, userLocation)
        taken == {k \in 1..Len(branches) : branches[k] # None}
    IN  IF taken = {} THEN GenericHelp
        ELSE Get(branches[CHOOSE k \in taken : \A j \in taken : k <= j])

\* The catalogue the chat is asked about: four of the seed's entries with
\* their names and positions.
ChatSeed ==
    <<Placed(BrockSt, "Brock Street", -156),
      Placed(AngroveLot, "Angrove Lot", 200),
      Placed(ChownGarage, "Chown Memorial Garage", -356),
      Placed(BeamishMunroHall, "Beamish Munro Hall", -278)>>

\* The catalogue with the entries in the set emptied.
WithFull(locations, full) ==
    [i \in 1..Len(locations) |->
        IF i \in full THEN [locations[i] EXCEPT !.availableSpots = 0]
        ELSE locations[i]]

PrincessSt ==
    Location("princess-st", "street", 12, 3, StreetHours, StreetPricing(200))

\* king-st-e after drift has given it spots (the seed starts it at 0).
KingStE ==
    Location("king-st-e", "street", 8, 3, StreetHours, StreetPricing(250))

\* Seven of the seed's entries, four of them streets, all within 400 m of
\* the downtown landmark.
Town ==
    <<Placed(PrincessSt, "Princess Street", 0),
      Placed(KingStE, "King Street East", -189),
      Placed(BrockSt, "Brock Street", -156),
      Placed(ClergyStW, "Clergy St W", -246),
      Placed(AngroveLot, "Angrove Lot", 200),
      Placed(ChownGarage, "Chown Memorial Garage", -356),
      Placed(BeamishMunroHall, "Beamish Munro Hall", -278)>>

\* A lot that is closed on Sundays and has a free tier for Sundays.
SundayFreeLot ==
    Placed(Location("free-sunday-lot", "lot", 20, 5,
                    Some(<<Hours(MON_SAT, <<9, 30>>, <<17, 30>>)>>),
                    StreetPricing(200)),
           "Free Sunday Lot", 100)

\* Catalogue states: every choice of full entries, with the street or
\* without it, and the catalogue with no entry; the seven entries with every
\* choice of full streets, and with all of them full; two catalogues with
\* the Sunday-free lot.
ChatCatalogs ==
    {<<>>}
        \cup {WithFull(ChatSeed, full) : full \in SUBSET (1..Len(ChatSeed))}
        \cup {Tail(WithFull(ChatSeed, full)) : full \in SUBSET (1..Len(ChatSeed))}
        \cup {WithFull(Town, full) : full \in SUBSET (1..4) \cup {1..Len(Town)}}
        \cup {<<SundayFreeLot>>, <<SundayFreeLot>> \o ChatSeed}

\* Sunday and Monday mid-morning, and the last minute of Monday, when every
\* lot is closed.
ChatDates ==
    {[day |-> 0, hours |-> 10, minutes |-> 0],
     [day |-> 1, hours |-> 10, minutes |-> 0],
     [day |-> 1, hours |-> 23, minutes |-> 59]}

UserLocations == {None} \cup {Some([lat |-> n]) : n \in {-300, -217, 200}}

\* One question put to the chat.
AnswerParkingQuestion ==
    /\ answer' = Some(answerParkingQuestion(parkingData, chatQuestion, date,
                                             chatUserLocation))
    /\ UNCHANGED <<parkingData, lastWrite, lastObs, location, date, resultVars,
                   chatQuestion, chatUserLocation, resolved, sensorSideVars>>

\* One resolution of the question's entity.
FindLocationsByQuestion ==
    /\ resolved' = Some(findLocationsByQuestion(parkingData, normalise(chatQuestion)))
    /\ UNCHANGED <<parkingData, lastWrite, lastObs, location, date, resultVars,
                   chatQuestion, chatUserLocation, answer, sensorSideVars>>

----------------------------------------------------------------------------
(* Specification of the catalogue *)

(* Relay server: server/index.js *)

\* lotId strings a request may carry.
RelayLotIds == {"clergy-st-w", "beamish-munro-hall", "lot-x"}

\* Largest availableSpots a request carries in the model; the smallest is -1,
\* so that Math.max acts.
MaxPosted == 3

\* A JSON value with its typeof; undefined stands for a missing field.
JsonString(s) == [typeof |-> "string", s |-> s, n |-> 0]
JsonNumber(n) == [typeof |-> "number", s |-> "", n |-> n]
Undefined == [typeof |-> "undefined", s |-> "", n |-> 0]

\* The three JSON documents the server answers with.
ErrorJson(error) ==
    [error |-> error, ok |-> FALSE, lotId |-> "", availableSpots |-> 0,
     entries |-> <<>>]
OkJson(lotId, availableSpots) ==
    [error |-> "", ok |-> TRUE, lotId |-> lotId,
     availableSpots |-> availableSpots, entries |-> <<>>]
EntriesJson(entries) ==
    [error |-> "", ok |-> FALSE, lotId |-> "", availableSpots |-> 0,
     entries |-> entries]

\* req.body ?? {} of a POST: lotId and availableSpots each present with the
\* right type, present with the wrong type, or missing.
PostBodies ==
    [lotId : {JsonString(id) : id \in RelayLotIds} \cup {JsonNumber(7), Undefined},
     availableSpots : {JsonNumber(n) : n \in (0 - 1)..MaxPosted}
                          \cup {JsonString("2"), Undefined}]

\* Map.prototype.set: a key already present keeps its place.
MapSet(map, key, value) ==
    IF \E i \in 1..Len(map) : map[i].lotId = key
    THEN [i \in 1..Len(map) |->
            IF map[i].lotId = key THEN [lotId |-> key, availableSpots |-> value]
            ELSE map[i]]
    ELSE Append(map, [lotId |-> key, availableSpots |-> value])

\* The POST handler storing availableSpots as it came.
postUnclamped(map, body) ==
    IF body.lotId.typeof # "string" \/ body.availableSpots.typeof # "number"
    THEN [map |-> map, status |-> 400,
          json |-> ErrorJson("Missing or invalid lotId / availableSpots")]
    ELSE [map |-> MapSet(map, body.lotId.s, body.availableSpots.n),
          status |-> 200,
          json |-> OkJson(body.lotId.s, body.availableSpots.n)]

\* app.post('/api/parking'): the Map after the request, the status and the
\* JSON answered.
post(map, body) ==
    IF body.lotId.typeof # "string" \/ body.availableSpots.typeof # "number"
    THEN [map |-> map, status |-> 400,
          json |-> ErrorJson("Missing or invalid lotId / availableSpots")]
    ELSE [map |-> MapSet(map, body.lotId.s, Max(0, body.availableSpots.n)),
          status |-> 200,
          json |-> OkJson(body.lotId.s, body.availableSpots.n)]

\* app.get('/api/parking'): Object.fromEntries(sensorOccupancy), as the
\* entries of the object in key order.
get(map) == [status |-> 200, json |-> EntriesJson(map)]

\* A body with a string lotId and a number availableSpots.
ValidBody(body) ==
    body.lotId.typeof = "string" /\ body.availableSpots.typeof = "number"

\* The relay's three variables after it has served a POST with the body.
Served(relay, body) ==
    [map |-> post(relay.map, body).map,
     response |-> Some([method |-> "POST", body |-> Some(body),
                        status |-> post(relay.map, body).status,
                        json |-> post(relay.map, body).json]),
     last |-> IF ValidBody(body)
              THEN [relay.last EXCEPT ![body.lotId.s] = Some(body.availableSpots.n)]
              ELSE relay.last]

Relay ==
    [map |-> sensorOccupancy, response |-> httpResponse, last |-> lastValidPost]

\* One POST /api/parking with the body.
PostOf(body) ==
    /\ sensorOccupancy' = Served(Relay, body).map
    /\ httpResponse' = Served(Relay, body).response
    /\ lastValidPost' = Served(Relay, body).last
    /\ UNCHANGED <<catalogVars, evalVars, lastPoll, hardwareVars>>

PostParking == \E body \in PostBodies : PostOf(body)

\* One GET /api/parking.
GetParking ==
    /\ httpResponse' = Some([method |-> "GET", body |-> None,
                             status |-> get(sensorOccupancy).status,
                             json |-> get(sensorOccupancy).json])
    /\ UNCHANGED <<catalogVars, evalVars, lastPoll, hardwareVars,
                   sensorOccupancy, lastValidPost>>

----------------------------------------------------------------------------
(* ESP32 sketch: hardware/parking_sensor_esp32/parking_sensor_esp32.ino *)

\* An unsigned long of 32 bits, as its two 16-bit halves <<high, low>>.
Half == 2 ^ 16

Zero32 == <<0, 0>>

\* The unsigned long of a number below 65536.
U32(n) == <<0, n>>

\* a + b and a - b of unsigned long, modulo 2^32.
Add32(a, b) ==
    <<(a[1] + b[1] + ((a[2] + b[2]) \div Half)) % Half, (a[2] + b[2]) % Half>>

Sub32(a, b) ==
    <<(a[1] - b[1] - (IF a[2] < b[2] THEN 1 ELSE 0) + 2 * Half) % Half,
      (a[2] - b[2] + Half) % Half>>

\* a < b of unsigned long.
Lt32(a, b) == a[1] < b[1] \/ (a[1] = b[1] /\ a[2] < b[2])

TOUCH_THRESHOLD == 300
MAX_TIME_BETWEEN_SENSORS == 2000
DEBOUNCE_TIME == 50
OBJECT_DISTANCE_THRESHOLD == 10
MAX_SPOTS == 3

\* "More than MAX_TIME_BETWEEN_SENSORS milliseconds ago, or never."
Far == MAX_TIME_BETWEEN_SENSORS + 1

\* The globals of the sketch as declared (lines 53-66).
Globals ==
    [fsr1Active |-> FALSE, fsr2Active |-> FALSE,
     fsr1Processed |-> FALSE, fsr2Processed |-> FALSE,
     fsr1WasPressed |-> FALSE, fsr2WasPressed |-> FALSE,
     fsr1PressTime |-> Zero32, fsr2PressTime |-> Zero32,
     currentOccupancy |-> 0,
     lastClergyAvailable |-> 0 - 1, lastBeamishAvailable |-> 0 - 1]

\* Iterations of loop() the model follows.
MaxLoops == 4

\* analogRead of an FSR: at the threshold (not a touch) and just above it.
FsrValues == {TOUCH_THRESHOLD, TOUCH_THRESHOLD + 1}

\* The ultrasonic distance in cm: 0 when pulseIn times out, the threshold,
\* and just beyond it.
Distances == {0, OBJECT_DISTANCE_THRESHOLD, OBJECT_DISTANCE_THRESHOLD + 1}

\* Milliseconds from one reading of millis() to the next: the delay(50) of
\* an iteration, an iteration held up by its POSTs, and a stretch of idle
\* iterations 1000 ms short of the 2^32 ms after which millis() starts over.
LongIdle == <<Half - 1, Half - 1000>>
Delays == {U32(50), U32(MAX_TIME_BETWEEN_SENSORS), LongIdle}

\* WiFi.status() and the code http.POST returns when the relay is not
\* reached; when it is reached the code is the relay's status.
Networks ==
    {[status |-> "WL_CONNECTED", reached |-> TRUE],
     [status |-> "WL_CONNECTED", reached |-> FALSE],
     [status |-> "WL_DISCONNECTED", reached |-> FALSE]}

\* The edge detection of one FSR (lines 126-138, 141-153): its four globals
\* after the reading.
edge(active, wasPressed, pressTime, processed, value, currentTime) ==
    IF value > TOUCH_THRESHOLD
    THEN IF ~active /\ ~wasPressed
         THEN [active |-> TRUE, wasPressed |-> TRUE, pressTime |-> currentTime,
               processed |-> TRUE]
         ELSE [active |-> active, wasPressed |-> wasPressed,
               pressTime |-> pressTime, processed |-> processed]
    ELSE [active |-> FALSE,
          wasPressed |->
              IF wasPressed /\ Lt32(U32(DEBOUNCE_TIME), Sub32(currentTime, pressTime))
              THEN FALSE ELSE wasPressed,
          pressTime |-> pressTime, processed |-> processed]

\* The direction logic (lines 157-171): currentOccupancy after a pair.
direction(occupancy, fsr1PressTime, fsr2PressTime) ==
    IF /\ Lt32(fsr1PressTime, fsr2PressTime)
       /\ ~Lt32(U32(MAX_TIME_BETWEEN_SENSORS), Sub32(fsr2PressTime, fsr1PressTime))
    THEN (IF occupancy < MAX_SPOTS THEN occupancy + 1 ELSE occupancy)
    ELSE IF /\ Lt32(fsr2PressTime, fsr1PressTime)
            /\ ~Lt32(U32(MAX_TIME_BETWEEN_SENSORS), Sub32(fsr1PressTime, fsr2PressTime))
    THEN (IF occupancy > 0 THEN occupancy - 1 ELSE occupancy)
    ELSE occupancy

\* The body of loop() on the globals (lines 121-206): the globals after the
\* iteration and the calls of postOccupancy it makes, in order.
loop(g, currentTime, fsr1Value, fsr2Value, distance) ==
    LET e1 == edge(g.fsr1Active, g.fsr1WasPressed, g.fsr1PressTime,
                   g.fsr1Processed, fsr1Value, currentTime)
        e2 == edge(g.fsr2Active, g.fsr2WasPressed, g.fsr2PressTime,
                   g.fsr2Processed, fsr2Value, currentTime)
        pair == e1.processed /\ e2.processed
        occupancy == IF pair
                     THEN direction(g.currentOccupancy, e1.pressTime, e2.pressTime)
                     ELSE g.currentOccupancy
        beamishAvailable == MAX_SPOTS - occupancy
        beamishPost == pair /\ beamishAvailable # g.lastBeamishAvailable
        clergyAvailable ==
            IF distance > 0 /\ distance <= OBJECT_DISTANCE_THRESHOLD THEN 0 ELSE 1
        clergyPost == clergyAvailable # g.lastClergyAvailable
    IN  [globals |->
            [fsr1Active |-> e1.active, fsr2Active |-> e2.active,
             fsr1Processed |-> IF pair THEN FALSE ELSE e1.processed,
             fsr2Processed |-> IF pair THEN FALSE ELSE e2.processed,
             fsr1WasPressed |-> IF pair THEN FALSE ELSE e1.wasPressed,
             fsr2WasPressed |-> IF pair THEN FALSE ELSE e2.wasPressed,
             fsr1PressTime |-> e1.pressTime, fsr2PressTime |-> e2.pressTime,
             currentOccupancy |-> occupancy,
             lastClergyAvailable |-> clergyAvailable,
             lastBeamishAvailable |->
                 IF beamishPost THEN beamishAvailable ELSE g.lastBeamishAvailable],
         posts |->
            (IF beamishPost
             THEN <<[lotId |-> "beamish-munro-hall",
                     availableSpots |-> beamishAvailable]>>
             ELSE <<>>)
            \o (IF clergyPost
                THEN <<[lotId |-> "clergy-st-w", availableSpots |-> clergyAvailable]>>
                ELSE <<>>)]

\* postOccupancy (lines 71-88): the relay after the call.
postOccupancy(relay, network, lotId, availableSpots) ==
    IF network.status # "WL_CONNECTED" THEN relay
    ELSE IF ~network.reached THEN relay
    ELSE Served(relay, [lotId |-> JsonString(lotId),
                        availableSpots |-> JsonNumber(availableSpots)])

\* The relay after the calls of one iteration, each with its own network.
RECURSIVE PostAll(_, _, _)
PostAll(relay, posts, networks) ==
    IF posts = <<>> THEN relay
    ELSE PostAll(postOccupancy(relay, Head(networks), Head(posts).lotId,
                               Head(posts).availableSpots),
                 Tail(posts), Tail(networks))

\* The true time since a press, after delay more milliseconds.
Aged(age, delay) ==
    IF delay[1] > 0 THEN Far ELSE Min(Far, age + delay[2])

\* One iteration of loop(), delay after the one before, with its readings
\* and the network each of its POSTs meets.  A long idle stretch is one with
\* no touch on either FSR.
LoopOf(delay, fsr1Value, fsr2Value, distance) ==
    LET currentTime == Add32(millis, delay)
        after == loop(esp32, currentTime, fsr1Value, fsr2Value, distance)
    IN  /\ loops < MaxLoops
        /\ delay = LongIdle =>
               fsr1Value <= TOUCH_THRESHOLD /\ fsr2Value <= TOUCH_THRESHOLD
        /\ \E networks \in [1..Len(after.posts) -> Networks] :
              LET relay == PostAll(Relay, after.posts, networks)
              IN  /\ sensorOccupancy' = relay.map
                  /\ httpResponse' = relay.response
                  /\ lastValidPost' = relay.last
        /\ millis' = currentTime
        /\ esp32' = after.globals
        /\ pressAge' =
              [fsr1 |-> IF fsr1Value > TOUCH_THRESHOLD /\ ~esp32.fsr1Active
                           /\ ~esp32.fsr1WasPressed
                        THEN 0 ELSE Aged(pressAge.fsr1, delay),
               fsr2 |-> IF fsr2Value > TOUCH_THRESHOLD /\ ~esp32.fsr2Active
                           /\ ~esp32.fsr2WasPressed
                        THEN 0 ELSE Aged(pressAge.fsr2, delay)]
        /\ loops' = loops + 1
        /\ UNCHANGED <<catalogVars, evalVars, lastPoll>>

Loop ==
    \E delay \in Delays, fsr1Value \in FsrValues, fsr2Value \in FsrValues,
       distance \in Distances :
        LoopOf(delay, fsr1Value, fsr2Value, distance)

----------------------------------------------------------------------------
(* Initial states and specifications *)

\* The sensor side before anything has run: no poll, the sketch's globals as
\* declared, an empty Map.
SensorSideInit ==
    /\ lastPoll = None
    /\ millis = Zero32
    /\ esp32 = Globals
    /\ pressAge = [fsr1 |-> Far, fsr2 |-> Far]
    /\ loops = 0
    /\ sensorOccupancy = <<>>
    /\ httpResponse = None
    /\ lastValidPost = [lotId \in RelayLotIds |-> None]

(* The site polling the relay the sketch posts to *)

\* res.json() of a GET answer: Object.entries of the object the relay sent.
Polled(map) ==
    [outcome |-> "ok",
     data |-> [i \in 1..Len(map) |->
                  [lotId |-> map[i].lotId,
                   value |-> [isNumber |-> TRUE, n |-> map[i].availableSpots]]]]

\* One run of fetchSensorData that reaches the relay.
PollRelay ==
    LET res == Polled(get(sensorOccupancy).json.entries)
    IN  /\ httpResponse' = Some([method |-> "GET", body |-> None,
                                 status |-> get(sensorOccupancy).status,
                                 json |-> get(sensorOccupancy).json])
        /\ parkingData' = ApplyEntries(parkingData, res.data)
        /\ lastObs' = ObserveEntries(lastObs, res.data)
        /\ lastWrite' = LastForwarded(res.data, lastWrite)
        /\ lastPoll' = Some(PollSummary(res))
        /\ UNCHANGED <<evalVars, hardwareVars, sensorOccupancy, lastValidPost>>

\* One run of fetchSensorData that does not reach the relay.
PollRelayFailed ==
    /\ lastPoll' = Some(PollSummary([outcome |-> "networkError", data |-> <<>>]))
    /\ UNCHANGED <<catalogVars, evalVars, hardwareVars, relayVars>>

\* The relay server on its own, with any client.
NextRelay == PostParking \/ GetParking

\* Iterations of loop() followed when the site polls as well.
MaxEndToEndLoops == 2

\* An iteration of loop() while the site polls.
LoopWhilePolled == loops < MaxEndToEndLoops /\ Loop

\* The sketch, the relay and the polling site together.
NextEndToEnd == LoopWhilePolled \/ PollRelay \/ PollRelayFailed

\* The sketch with the relay it posts to.
NextSketch == Loop

Init ==
    /\ parkingData = initialParkingData
    /\ lastWrite = Wrote("init", "")
    /\ lastObs = [id \in ARDUINO_IDS |-> None]
    /\ location = BrockSt
    /\ date = [day |-> 1, hours |-> 10, minutes |-> 0]
    /\ openResult = None
    /\ priceResult = None
    /\ card = None
    /\ spots = None
    /\ chatQuestion = ""
    /\ chatUserLocation = None
    /\ answer = None
    /\ resolved = None
    /\ SensorSideInit

Next == SimulateUpdate \/ SensorEvent \/ FetchSensorData

Spec == Init /\ [][Next]_vars

SpecRelay == Init /\ [][NextRelay]_vars

SpecSketch == Init /\ [][NextSketch]_vars

\* loop() runs again and again, and the 5 s interval of the site keeps
\* firing with the relay in reach.
SpecEndToEnd ==
    Init /\ [][NextEndToEnd]_vars /\ WF_vars(LoopWhilePolled)
        /\ WF_vars(PollRelay)

----------------------------------------------------------------------------
(* Specification of the evaluator: any location at any instant, rendered *)

InitEval ==
    /\ parkingData = initialParkingData
    /\ lastWrite = Wrote("init", "")
    /\ lastObs = [id \in ARDUINO_IDS |-> None]
    /\ location \in EvalLocations
    /\ date \in Dates
    /\ openResult = None
    /\ priceResult = None
    /\ card = None
    /\ spots = None
    /\ chatQuestion = ""
    /\ chatUserLocation = None
    /\ answer = None
    /\ resolved = None
    /\ SensorSideInit

NextEval == ParkingCard

SpecEval == InitEval /\ [][NextEval]_vars

----------------------------------------------------------------------------
(* Specification of the spot markers: any street, its markers computed *)

InitSpots ==
    /\ parkingData = initialParkingData
    /\ lastWrite = Wrote("init", "")
    /\ lastObs = [id \in ARDUINO_IDS |-> None]
    /\ location \in SpotLocations
    /\ date = [day |-> 1, hours |-> 10, minutes |-> 0]
    /\ openResult = None
    /\ priceResult = None
    /\ card = None
    /\ spots = None
    /\ chatQuestion = ""
    /\ chatUserLocation = None
    /\ answer = None
    /\ resolved = None
    /\ SensorSideInit

NextSpots == GetSpotPositions

SpecSpots == InitSpots /\ [][NextSpots]_vars

----------------------------------------------------------------------------
(* Specification of the chat: any question about any catalogue state *)

InitChat ==
    /\ parkingData \in ChatCatalogs
    /\ lastWrite = Wrote("init", "")
    /\ lastObs = [id \in ARDUINO_IDS |-> None]
    /\ location = BrockSt
    /\ date \in ChatDates
    /\ openResult = None
    /\ priceResult = None
    /\ card = None
    /\ spots = None
    /\ chatQuestion \in Questions
    /\ chatUserLocation \in UserLocations
    /\ answer = None
    /\ resolved = None
    /\ SensorSideInit

NextChat == AnswerParkingQuestion \/ FindLocationsByQuestion

SpecChat == InitChat /\ [][NextChat]_vars

----------------------------------------------------------------------------
(* Properties of the catalogue (checked under Spec) *)

\* The entry of the catalogue with the given id.
Entry(id) == parkingData[CHOOSE i \in 1..Len(parkingData) : parkingData[i].id = id]

\* clamp(x, 0, total), written out.
Clamped(x, total) == IF x < 0 THEN 0 ELSE IF x > total THEN total ELSE x

\* C1: in every state reachable from the seed catalogue by drift ticks and
\* sensor merges with arbitrary integer observations, every location has
\* 0 <= availableSpots <= totalSpots.
C1_AvailableWithinCapacity ==
    \A i \in 1..Len(parkingData) :
        /\ 0 <= parkingData[i].availableSpots
        /\ parkingData[i].availableSpots <= parkingData[i].totalSpots

\* C1 witness: observations above capacity and below zero have been merged,
\* a drift tick ran last and left brock-st at capacity.
C1_Witness ==
    /\ lastObs["clergy-st-w"] # None
    /\ Get(lastObs["clergy-st-w"]) > Entry("clergy-st-w").totalSpots
    /\ lastObs["beamish-munro-hall"] = Some(0 - 1)
    /\ lastWrite.by = "simulateUpdate"
    /\ Entry("brock-st").availableSpots = Entry("brock-st").totalSpots

\* C2: for a sensor-backed id, after any interleaving of sensor merges and
\* drift ticks, the stored availableSpots is clamp(x, 0, totalSpots) for the
\* most recent observation x applied for that id.
C2_SensorValueIsLastObservation ==
    \A id \in ARDUINO_IDS :
        lastObs[id] # None =>
            Entry(id).availableSpots = Clamped(Get(lastObs[id]), Entry(id).totalSpots)

\* C2 witness: clergy-st-w was last observed at 0 (as after the updates 1
\* then 0), beamish-munro-hall above its capacity, and a drift tick that moved
\* brock-st ran afterwards.
C2_Witness ==
    /\ lastObs["clergy-st-w"] = Some(0)
    /\ Entry("clergy-st-w").availableSpots = 0
    /\ lastObs["beamish-munro-hall"] # None
    /\ Get(lastObs["beamish-munro-hall"]) > Entry("beamish-munro-hall").totalSpots
    /\ lastWrite.by = "simulateUpdate"
    /\ Entry("brock-st").availableSpots # BrockSt.availableSpots

\* C3: applying the same (lotId, value) update twice in a row yields the same
\* catalogue as applying it once, for every reachable catalogue.
C3_MergeIdempotent ==
    \A lotId \in EventLotIds, x \in Obs :
        LET once == applySensorUpdate(parkingData, lotId, x)
        IN  applySensorUpdate(once, lotId, x) = once

\* C3 witness: a merge has just been applied to clergy-st-w with a value
\* different from the seed's, so a second application would meet the merged
\* catalogue.
C3_Witness ==
    /\ lastWrite = Wrote("applySensorUpdate", "clergy-st-w")
    /\ lastObs["clergy-st-w"] = Some(1)
    /\ Entry("clergy-st-w").availableSpots = 1

\* C4: a sensor update whose lotId matches no catalogue entry leaves every
\* location as it was (and is a defined step, not an error).
C4_UnknownIdNoOp ==
    [][\A v \in SensorValues :
          SensorEventOf("no-such-lot", v) => parkingData' = parkingData]_vars

\* C4 witness: the last applySensorUpdate call carried the unknown id, in a
\* catalogue that earlier mutations had moved away from the seed.
C4_Witness ==
    /\ lastWrite = Wrote("applySensorUpdate", "no-such-lot")
    /\ Entry("brock-st").availableSpots # BrockSt.availableSpots
    /\ lastObs["clergy-st-w"] # None

\* Everything of an entry except availableSpots.
Static(loc) == [loc EXCEPT !.availableSpots = 0]

\* C5: every mutation changes only availableSpots; a sensor merge for lotId
\* leaves every location other than lotId unchanged, in every reachable
\* catalogue; and the catalogue always has the seed's ids, in the seed's
\* order, with the seed's totalSpots.
C5_MutationFrame ==
    /\ [](/\ Len(parkingData) = Len(initialParkingData)
          /\ \A i \in 1..Len(parkingData) :
                Static(parkingData[i]) = Static(initialParkingData[i])
          /\ \A lotId \in EventLotIds, x \in Obs :
                LET merged == applySensorUpdate(parkingData, lotId, x)
                IN  /\ Len(merged) = Len(parkingData)
                    /\ \A i \in 1..Len(parkingData) :
                          parkingData[i].id # lotId => merged[i] = parkingData[i])
    /\ [][/\ Len(parkingData') = Len(parkingData)
          /\ \A i \in 1..Len(parkingData) :
                Static(parkingData'[i]) = Static(parkingData[i])]_vars

\* C5 witness: a merge for beamish-munro-hall has just changed its count,
\* after a drift tick had changed brock-st.
C5_Witness ==
    /\ lastWrite = Wrote("applySensorUpdate", "beamish-munro-hall")
    /\ Entry("beamish-munro-hall").availableSpots # BeamishMunroHall.availableSpots
    /\ Entry("brock-st").availableSpots # BrockSt.availableSpots

----------------------------------------------------------------------------
(* Properties of the evaluator (checked under SpecEval) *)

\* The location under evaluation has no operatingHours, or an empty list.
NoOperatingHours ==
    location.operatingHours = None \/ Get(location.operatingHours) = <<>>

\* C6: isLocationOpen returns true at every instant for every street (also
\* when its operatingHours windows do not cover the instant) and for every
\* lot whose operatingHours is absent or empty.
C6_StreetsAndUnrestrictedLotsOpen ==
    (openResult # None /\ (location.type = "street" \/ NoOperatingHours))
        => openResult = Some(TRUE)

\* C6 witness: brock-st (windows Mon-Sat 09:30-17:30) evaluated on a Sunday.
C6_Witness ==
    /\ location = BrockSt
    /\ date.day = 0
    /\ openResult = Some(TRUE)

\* C7: for a lot with a single window with start < end, isLocationOpen is
\* true iff the day of week is in the window's day set and
\* start <= minutes-of-day < end.
C7_SingleWindowHalfOpen ==
    (/\ openResult # None
     /\ location.type = "lot"
     /\ ~NoOperatingHours
     /\ Len(Get(location.operatingHours)) = 1
     /\ LET h == Get(location.operatingHours)[1]
        IN  h.start[1] * 60 + h.start[2] < h.end[1] * 60 + h.end[2])
    => LET h == Get(location.operatingHours)[1]
           m == date.hours * 60 + date.minutes
       IN  openResult =
             Some(/\ date.day \in h.days
                  /\ h.start[1] * 60 + h.start[2] <= m
                  /\ m < h.end[1] * 60 + h.end[2])

\* C7 witness: a Monday-only 06:00-18:00 lot evaluated on Monday at exactly
\* 18:00 is closed.
C7_Witness ==
    /\ location.type = "lot"
    /\ location.operatingHours = Some(<<Hours({1}, <<6, 0>>, <<18, 0>>)>>)
    /\ date = [day |-> 1, hours |-> 18, minutes |-> 0]
    /\ openResult = Some(FALSE)

\* C8: a lot whose only window is {start 18:00, end 06:00, days [Mon]} is
\* reported open both at Monday 23:00 and at Monday 05:00.
C8_MidnightWrapOpen ==
    (/\ openResult # None
     /\ location.type = "lot"
     /\ location.operatingHours = Some(<<Hours({1}, <<18, 0>>, <<6, 0>>)>>)
     /\ date.day = 1
     /\ date.minutes = 0
     /\ date.hours \in {23, 5})
    => openResult = Some(TRUE)

\* C9: a tier whose endTime is earlier than its startTime spans midnight: on
\* a day of the tier's day set, at clock times at or after startTime and at
\* clock times before endTime, getCurrentPrice returns a price, and it is that
\* tier's when the tier is the first of the list.
C9_OvernightTierPriced ==
    (/\ priceResult # None
     /\ location.pricing # None
     /\ ~Get(location.pricing).permitOnly)
    => \A k \in 1..Len(Get(location.pricing).tiers) :
          LET tier == Get(location.pricing).tiers[k]
              start == tier.startTime[1] * 60 + tier.startTime[2]
              end == tier.endTime[1] * 60 + tier.endTime[2]
              m == date.hours * 60 + date.minutes
          IN  (/\ end < start
               /\ (tier.days = None \/ date.day \in Get(tier.days))
               /\ (m >= start \/ m < end))
              => /\ Get(priceResult) # None
                 /\ k = 1 => /\ Get(Get(priceResult)).rate = tier.rate
                             /\ Get(Get(priceResult)).unit = tier.unit

\* Indices of the tiers of the location that getCurrentPrice's test accepts
\* at the instant.
MatchingTiers ==
    {k \in 1..Len(Get(location.pricing).tiers) :
        TierMatches(Get(location.pricing).tiers[k], date.day,
                    date.hours * 60 + date.minutes)}

\* C10: when two or more tiers of a location match the instant, the result
\* carries the rate, unit and dailyMax of the matching tier that comes
\* first in the list, whatever the order of the tiers.
C10_FirstMatchingTierWins ==
    (/\ priceResult # None
     /\ location.pricing # None
     /\ ~Get(location.pricing).permitOnly
     /\ Cardinality(MatchingTiers) >= 2)
    => LET first == CHOOSE k \in MatchingTiers : \A j \in MatchingTiers : k <= j
           tier == Get(location.pricing).tiers[first]
       IN  /\ Get(priceResult) # None
           /\ Get(Get(priceResult)).rate = tier.rate
           /\ Get(Get(priceResult)).unit = tier.unit
           /\ Get(Get(priceResult)).dailyMax = tier.dailyMax

\* C10 witness: two tiers with different rates both match, the first one is
\* not the cheaper one, and the price returned is the first one's.
C10_Witness ==
    /\ priceResult # None
    /\ location.pricing # None
    /\ ~Get(location.pricing).permitOnly
    /\ MatchingTiers = {1, 2}
    /\ Get(location.pricing).tiers[1].rate > Get(location.pricing).tiers[2].rate
    /\ Get(priceResult) # None
    /\ Get(Get(priceResult)).rate = Get(location.pricing).tiers[1].rate

\* Tier k of the location under evaluation passes the day and time test as
\* the evaluator states it: the day of week is in the tier's day set (all 7
\* days when the tier has none) and start <= minutes-of-day < end, with 24 h
\* added to end when end < start.
TierApplies(k) ==
    LET tier == Get(location.pricing).tiers[k]
        start == tier.startTime[1] * 60 + tier.startTime[2]
        end0 == tier.endTime[1] * 60 + tier.endTime[2]
        end == IF end0 < start THEN end0 + 1440 ELSE end0
        m == date.hours * 60 + date.minutes
    IN  /\ (tier.days = None \/ date.day \in Get(tier.days))
        /\ start <= m
        /\ m < end

C12_ClosedHasNoPrice ==
    (openResult = Some(FALSE) /\ priceResult # None) => Get(priceResult) = None

\* C13: for total > 0 and 0 <= available <= total, getStatusColor is full
\* iff available = 0, low iff 0 < available and 5 * available <= total, and
\* available otherwise (read off the card of an open location).
C13_StatusThresholds ==
    (card # None /\ openResult = Some(TRUE)
        /\ location.totalSpots > 0
        /\ 0 <= location.availableSpots
        /\ location.availableSpots <= location.totalSpots)
    => LET a == location.availableSpots
           t == location.totalSpots
       IN  /\ (Get(card).status = "full") <=> (a = 0)
           /\ (Get(card).status = "low") <=> (0 < a /\ 5 * a <= t)
           /\ (Get(card).status = "available") <=> (5 * a > t)

\* C13 witness: an open location holding exactly a fifth of its capacity
\* (2 of 10) is shown as low.
C13_Witness ==
    /\ card # None
    /\ openResult = Some(TRUE)
    /\ location.totalSpots = 10
    /\ location.availableSpots = 2
    /\ Get(card).status = "low"

\* C14: when the location is closed the card shows 0 available, status full
\* and the Closed line, whatever the stored count; when it is open the count
\* shown is the stored availableSpots; rendering never changes the stored
\* availableSpots.
C14_ClosedOverridesDisplayOnly ==
    /\ [](card # None =>
            /\ openResult = Some(FALSE) =>
                  /\ Get(card).available = 0
                  /\ Get(card).status = "full"
                  /\ Get(card).badge = "full"
                  /\ Get(card).closedLine
            /\ openResult = Some(TRUE) =>
                  Get(card).available = location.availableSpots)
    /\ [][/\ location'.availableSpots = location.availableSpots
          /\ \A i \in 1..Len(parkingData) :
                parkingData'[i].availableSpots = parkingData[i].availableSpots]_vars

\* C14 witness: a closed lot with spots stored (4 of 10, on a Sunday) is
\* shown with 0 available and status full.
C14_Witness ==
    /\ card # None
    /\ openResult = Some(FALSE)
    /\ location.availableSpots = 4
    /\ location.totalSpots = 10
    /\ date.day = 0
    /\ Get(card).available = 0
    /\ Get(card).status = "full"

----------------------------------------------------------------------------
(* Properties of the spot markers (checked under SpecSpots) *)

\* The path has no arc length: every two consecutive points are the same.
ZeroLength(path) == \A j \in 1..(Len(path) - 1) : path[j] = path[j + 1]

Degenerate(loc) ==
    \/ loc.path = None
    \/ Len(Get(loc.path)) < 2
    \/ ZeroLength(Get(loc.path))
    \/ loc.totalSpots <= 0

\* C15: getSpotPositions returns the empty sequence whenever the path is
\* absent, has fewer than 2 points, has total arc length 0, or totalSpots <= 0.
C15_DegenerateGivesEmpty ==
    (spots # None /\ Degenerate(location)) => Get(spots) = <<>>

\* A two-point path of length 0 with 3 spots gave no marker.
C15_Witness ==
    /\ spots = Some(<<>>)
    /\ location.path = Some(<<2, 2>>)
    /\ location.totalSpots = 3

\* Spot i is not later along the path than spot k.
NotLater(a, b) ==
    \/ a.seg < b.seg
    \/ a.seg = b.seg /\ RatLeq(a.frac, b.frac)

\* C16: for a path of at least 2 points and positive length and
\* totalSpots > 0, getSpotPositions returns exactly totalSpots points, the
\* point at index i+1 is never earlier along the path (segment index, then
\* fraction within the segment) than the point at index i, and the result is
\* the same for every location with that path and totalSpots.
C16_CountAndOrder ==
    (spots # None /\ ~Degenerate(location)) =>
        LET path == Get(location.path)
            total == location.totalSpots
            at(i) == Placement(path, total, i - 1)
        IN  /\ Len(Get(spots)) = total
            /\ \A i \in 1..total : Get(spots)[i] = PointAt(path, at(i))
            /\ \A i \in 1..(total - 1) : NotLater(at(i), at(i + 1))
            /\ \A other \in SpotLocations :
                   (other.path = location.path /\ other.totalSpots = total)
                       => getSpotPositions(other) = Get(spots)

\* Four markers on the two-segment path 0 -> 3 -> 1.
C16_Witness ==
    /\ spots # None
    /\ location.path = Some(<<0, 3, 1>>)
    /\ location.totalSpots = 4
    /\ location.availableSpots = 0
    /\ Len(Get(spots)) = 4

\* The point lies on segment j of the path at a fraction within [0.2, 0.8]:
\* with d the signed length of the segment and x / den the offset of the
\* point from the start of the segment, 1/5 <= x / (den * d) <= 4/5.
OnSegment(point, path, j) ==
    LET d == path[j + 1] - path[j]
        den == point.lat[2]
        x == point.lat[1] - path[j] * den
    IN  IF d = 0 THEN x = 0
        ELSE /\ den * Abs(d) <= 5 * x * (d \div Abs(d))
             /\ 5 * x * (d \div Abs(d)) <= 4 * den * Abs(d)

----------------------------------------------------------------------------
(* Properties of the chat (checked under SpecChat) *)

\* The question names a landmark together with a proximity or parking word.
AsksLandmark(q) ==
    \E k \in 1..Len(LANDMARKS) : includes(q, LANDMARKS[k].key) /\ hasTrigger(q)

\* The question is empty or triggers an intent tested before the
\* closest-to-me intent.
EarlierIntent(q) ==
    \/ q = ""
    \/ askHelp(q) \/ askJustOpened(q) \/ askWhyFull(q)
    \/ askPrediction(q) \/ askTrend(q)
    \/ AsksLandmark(q) \/ askRestaurants(q)

\* The question is not empty and no intent pattern of the function matches it.
NoIntent(q) ==
    /\ ~EarlierIntent(q)
    /\ ~askClosest(q) /\ ~askMost(q) /\ ~askIfFull(q) /\ ~askLotLetter(q)
    /\ ~askHowMany(q) /\ ~askIsFull(q) /\ ~askLotOrGarage(q)
    /\ ~askTotalSpots(q) /\ ~askCars(q) /\ ~askSpotsLeft(q) /\ ~askPercent(q)
    /\ ~askFree(q) /\ ~askAvailable(q) /\ ~askFull(q) /\ ~askRate(q)

NoKeyword(q) == \A k \in 1..Len(NAME_KEYWORDS) : ~includes(q, NAME_KEYWORDS[k])

ClosestFirst(q) == askClosest(q) /\ ~EarlierIntent(q)

\* C19: a closest-to-me question that triggers no earlier intent, asked with
\* no user location, gets the fixed instruction to search for an address
\* first, in every catalogue state.
C19_NoUserLocationSearchFirst ==
    (answer # None /\ chatUserLocation = None
        /\ ClosestFirst(normalise(chatQuestion)))
        => Get(answer) = SearchFirst

\* Asked with spots available all over the catalogue but no user location.
C19_Witness ==
    /\ chatQuestion = "Where is the closest available parking to me?"
    /\ chatUserLocation = None
    /\ parkingData = ChatSeed
    /\ answer = Some(SearchFirst)

\* The closest-to-me answer that names the location.
ClosestText(l, metres) ==
    "Closest available: " \o l.name \o " (" \o ToString(l.availableSpots)
        \o " spots), about " \o ToString(metres)
        \o " m away. Check the map for the exact location."

\* C20: for a closest-to-me question with a user location, the location
\* named in the answer is open and has availableSpots > 0 and no other open
\* location with availableSpots > 0 is strictly nearer to the user; a closed or
\* full location is never named; if no location qualifies, the answer is the
\* "No spots are available" string.
C20_ClosestIsNearestQualifying ==
    (answer # None /\ chatUserLocation # None
        /\ ClosestFirst(normalise(chatQuestion)))
        => LET u == Get(chatUserLocation)
               all == 1..Len(parkingData)
               away(i) == Abs(parkingData[i].lat - u.lat)
               qualifying == {i \in all :
                                 /\ isLocationOpen(parkingData[i], date)
                                 /\ parkingData[i].availableSpots > 0}
           IN  IF qualifying = {} THEN Get(answer) = NoSpotsNearYou
               ELSE /\ \E i \in qualifying :
                          /\ Get(answer) = ClosestText(parkingData[i], away(i))
                          /\ \A j \in qualifying : away(j) >= away(i)
                    /\ \A i \in all \ qualifying :
                          Get(answer) # ClosestText(parkingData[i], away(i))

\* Asked on a Sunday from the position of Angrove Lot, which is closed with
\* 8 spots: the answer names Brock Street, 356 m away.
C20_Witness ==
    /\ chatQuestion = "closest to me"
    /\ chatUserLocation = Some([lat |-> 200])
    /\ date.day = 0
    /\ parkingData = ChatSeed
    /\ answer = Some("Closest available: Brock Street (4 spots), about 356 m away. Check the map for the exact location.")

\* Asked when every lot is closed and the street is full.
C20_WitnessNone ==
    /\ chatQuestion = "closest to me"
    /\ chatUserLocation # None
    /\ Len(parkingData) = 4
    /\ WithSpots(parkingData, date) = <<>>
    /\ answer = Some(NoSpotsNearYou)

\* The question is a most-available question that triggers no earlier intent.
MostFirst(q) == askMost(q) /\ ~EarlierIntent(q) /\ ~askClosest(q)

\* C21: for a most-available question, if any street has availableSpots > 0
\* the answer names a street whose availableSpots is maximal among streets,
\* whatever the lots hold; otherwise it names an open lot whose availableSpots
\* is positive and maximal among open lots; if there is neither, the answer is
\* the "No streets or lots" string.
C21_StreetsBeforeLots ==
    (answer # None /\ MostFirst(normalise(chatQuestion))) =>
        LET all == 1..Len(parkingData)
            has(i) == parkingData[i].availableSpots
            streets == {i \in all : parkingData[i].type = "street" /\ has(i) > 0}
            lots == {i \in all :
                        /\ parkingData[i].type = "lot"
                        /\ isLocationOpen(parkingData[i], date)
                        /\ has(i) > 0}
        IN  IF streets # {}
            THEN \E i \in streets :
                    /\ Get(answer) = parkingData[i].name
                            \o " has the most right now: " \o ToString(has(i))
                            \o " spots available."
                    /\ \A j \in streets : has(j) <= has(i)
            ELSE IF lots # {}
            THEN \E i \in lots :
                    /\ Get(answer) = parkingData[i].name
                            \o " has the most available: " \o ToString(has(i))
                            \o " spots."
                    /\ \A j \in lots : has(j) <= has(i)
            ELSE Get(answer) = "No streets or lots with available spots right now. Check the map for updates."

\* Brock Street, with 4 spots, is named although Chown Memorial Garage is
\* open with 45.
C21_Witness ==
    /\ chatQuestion = "which street has the most available?"
    /\ parkingData = Town
    /\ date = [day |-> 1, hours |-> 10, minutes |-> 0]
    /\ answer = Some("Brock Street has the most right now: 4 spots available.")

\* The question reaches the landmark test of answerParkingQuestion.
LandmarkFirst(q) ==
    /\ q # "" /\ AsksLandmark(q)
    /\ ~askHelp(q) /\ ~askJustOpened(q) /\ ~askWhyFull(q)
    /\ ~askPrediction(q) /\ ~askTrend(q)

\* The first landmark, in table order, whose key the question holds.
LandmarkOf(q) ==
    LANDMARKS[CHOOSE k \in 1..Len(LANDMARKS) :
                 /\ includes(q, LANDMARKS[k].key)
                 /\ \A j \in 1..(k - 1) : ~includes(q, LANDMARKS[j].key)]

\* C22: for a landmark question the locations listed as available are, in
\* catalogue order, the first at most 6 catalogue entries that lie within
\* 400 m of the landmark, are open now and have availableSpots > 0; when no
\* entry qualifies the answer lists none as available.
C22_LandmarkListsFirstSix ==
    (answer # None /\ LandmarkFirst(normalise(chatQuestion))) =>
        LET lm == LandmarkOf(normalise(chatQuestion))
            within == {i \in 1..Len(parkingData) :
                          haversineDistance(parkingData[i].lat, lm.lat) <= 400}
            qualifying == {i \in within :
                              /\ isLocationOpen(parkingData[i], date)
                              /\ parkingData[i].availableSpots > 0}
            listed == {i \in qualifying :
                          Cardinality({j \in qualifying : j < i}) < 6}
            order == Ascending(listed)
            entry(i) == parkingData[i].name \o " ("
                            \o ToString(parkingData[i].availableSpots)
                            \o " available)"
        IN  IF qualifying # {}
            THEN Get(answer) = "Near " \o lm.label \o ": "
                     \o Join([k \in 1..Len(order) |-> entry(order[k])], "; ")
                     \o ". See the map for directions."
            ELSE \/ Get(answer) = "We don't have parking data right at " \o lm.label
                     \o ". Try searching an address on the map to see nearby options."
                 \/ \E n \in 1..5 :
                        /\ n = Min(5, Cardinality(within))
                        /\ Get(answer) = "Near " \o lm.label \o " we have: "
                               \o Join([k \in 1..n |->
                                          parkingData[Ascending(within)[k]].name], ", ")
                               \o ". Right now none show available spots-check the map for live updates."

\* Seven entries qualify near downtown; the seventh, Beamish Munro Hall, is
\* not listed.
C22_Witness ==
    /\ chatQuestion = "nearest parking downtown"
    /\ parkingData = Town
    /\ date = [day |-> 1, hours |-> 10, minutes |-> 0]
    /\ answer = Some("Near downtown Kingston: Princess Street (3 available); King Street East (3 available); Brock Street (4 available); Clergy St W (2 available); Angrove Lot (8 available); Chown Memorial Garage (45 available). See the map for directions.")

\* The question reaches the free-parking test of answerParkingQuestion: it
\* is a free-parking question and no earlier return site answers it.
FreeFirst ==
    /\ askFree(normalise(chatQuestion))
    /\ \A k \in 1..12 :
          Branches(parkingData, chatQuestion, date, chatUserLocation)[k] = None

\* C23: for a free-parking question that reaches the free-parking intent,
\* the answer affirms free parking and names a location iff the location is
\* in the resolved subset (the whole catalogue when no keyword occurs), is
\* open, and its first tier matching the instant has rate exactly 0; when no
\* location qualifies the answer is a generic one that mentions free Sundays.
C23_FreeIffOpenAndZero ==
    (answer # None /\ FreeFirst) =>
        LET subset == findLocationsByQuestion(parkingData,
                                              normalise(chatQuestion)).filtered
            qualifying == SelectSeq(subset, LAMBDA loc : FreeNow(loc, date))
        IN  IF Len(qualifying) > 0
            THEN Get(answer) = "Yes. Right now these have free parking: "
                     \o Join(Names(qualifying), ", ") \o "."
            ELSE Get(answer) \in
                    {"Right now it's paid on " \o chatDayNames[date.day + 1]
                        \o ". Many downtown streets (Princess, King, Brock, Division, Ontario, Wellington, Clergy) are free on Sundays.",
                     "No free street parking right now. Many downtown streets are free on Sundays."}

\* The answers the claim gets right: asking about Princess on a Sunday.
C23_PrincessOnSunday ==
    /\ chatQuestion = "is there free parking on princess?"
    /\ parkingData = Town
    /\ date = [day |-> 0, hours |-> 10, minutes |-> 0]
    /\ answer = Some("Yes. Right now these have free parking: Princess Street.")

\* The answer that breaks it: a lot that is closed on Sunday is affirmed free.
C23_ClosedAffirmedFree ==
    /\ chatQuestion = "is it free?"
    /\ parkingData = <<SundayFreeLot>>
    /\ date = [day |-> 0, hours |-> 10, minutes |-> 0]
    /\ ~isLocationOpen(SundayFreeLot, date)
    /\ answer = Some("Yes, Free Sunday Lot is free right now.")

\* The keywords, by table position, that occur in the question.
Occurring(q) == {k \in 1..Len(NAME_KEYWORDS) : includes(q, NAME_KEYWORDS[k])}

\* The catalogue positions selected by the predicate of keyword k.
Selected(k) ==
    {i \in 1..Len(parkingData) : match(NAME_KEYWORDS[k], parkingData[i])}

\* C24: findLocationsByQuestion returns the subset, in catalogue order,
\* selected by the first keyword in table order that occurs in the question
\* and selects a non-empty subset, and reports that keyword; keywords later in
\* the table never override it and keywords that occur but select nothing
\* are skipped; when every occurring keyword selects nothing the subset is
\* empty.
C24_FirstNonEmptyKeywordWins ==
    resolved # None =>
        LET occurring == Occurring(normalise(chatQuestion))
            winners == {k \in occurring : Selected(k) # {}}
        IN  IF winners # {}
            THEN LET w == CHOOSE k \in winners : \A j \in winners : k <= j
                     order == Ascending(Selected(w))
                 IN  /\ Get(resolved).filtered =
                            [n \in 1..Len(order) |-> parkingData[order[n]]]
                     /\ Get(resolved).matchedName = Some(NAME_KEYWORDS[w])
            ELSE occurring # {} => Get(resolved).filtered = <<>>

\* "king" occurs in "parking" and selects nothing, so it is skipped; "lot"
\* selects the three lots.
C24_Witness ==
    /\ chatQuestion = "parking lot a"
    /\ parkingData = ChatSeed
    /\ Selected(7) = {}
    /\ resolved = Some([filtered |-> Tail(ChatSeed), matchedName |-> Some("lot")])

\* "brock" wins although "street", later in the table, selects four entries.
C24_WitnessNoOverride ==
    /\ chatQuestion = "brock street"
    /\ parkingData = Town
    /\ Cardinality(Selected(19)) = 4
    /\ resolved = Some([filtered |-> <<Town[3]>>, matchedName |-> Some("brock")])

CouldNotFind ==
    "I couldn't find that street or lot. Try Princess, King, Brock, Ontario, or Beamish Munro."

\* The question reaches the how-many test: no earlier return site answers it.
ReachesStatus ==
    \A k \in 1..9 :
        Branches(parkingData, chatQuestion, date, chatUserLocation)[k] = None

\* The how-many answer about one location.
HowManyText(loc) ==
    IF ~isLocationOpen(loc, date) THEN ClosedWithHours(loc)
    ELSE "Right now there are " \o ToString(loc.availableSpots) \o " spot"
             \o (IF loc.availableSpots = 1 THEN "" ELSE "s")
             \o " available on " \o loc.name \o " ("
             \o ToString(loc.totalSpots) \o " total)."

\* The is-it-full answer about one location.
IsFullText(loc) ==
    IF ~isLocationOpen(loc, date) THEN ClosedWithHours(loc)
    ELSE IF loc.availableSpots = 0
    THEN "Yes, " \o loc.name \o " is full right now ("
             \o ToString(loc.totalSpots) \o " spots, 0 available)."
    ELSE "No. " \o loc.name \o " has " \o ToString(loc.availableSpots)
             \o " spot" \o (IF loc.availableSpots = 1 THEN "" ELSE "s")
             \o " available."

\* A question without a name keyword resolves to the whole catalogue, and
\* a how-many or is-it-full question without one is answered about the first
\* catalogue entry.
NoKeywordWholeCatalog ==
    LET q == normalise(chatQuestion)
    IN  /\ (resolved # None /\ NoKeyword(q)) =>
               Get(resolved) = [filtered |-> parkingData, matchedName |-> None]
        /\ (answer # None /\ NoKeyword(q) /\ ReachesStatus
                /\ Len(parkingData) > 0) =>
               /\ askHowMany(q) => Get(answer) = HowManyText(parkingData[1])
               /\ (askIsFull(q) /\ ~askHowMany(q)) =>
                      Get(answer) = IsFullText(parkingData[1])

C30_WitnessCouldNotFind ==
    /\ chatQuestion = "any spots on princess?"
    /\ parkingData = ChatSeed
    /\ answer = Some(CouldNotFind)

----------------------------------------------------------------------------
(* Properties of the sensor poll and the drift (checked under Spec) *)

\* C25 as stated: a sensor poll that fails, by a network error, a non-OK
\* status or an entry whose value is not a number, leaves the catalogue
\* exactly as it was before the poll.
C25_AnyFailureKeepsCatalog ==
    [][(/\ lastPoll' # None
        /\ \/ Get(lastPoll').outcome # "ok"
           \/ Get(lastPoll').skipped # {})
           => parkingData' = parkingData]_vars

\* C25 (amended): a poll that ends in a network error or a non-OK status
\* leaves the catalogue exactly as it was; in an answer that was read, an entry
\* whose value is not a number leaves its location as it was, while the other
\* entries of the same answer are still merged; and the next poll can always
\* run.
C25_FailedPollKeepsCatalog ==
    /\ [][lastPoll' # None =>
            /\ Get(lastPoll').outcome # "ok" =>
                   /\ parkingData' = parkingData
                   /\ lastObs' = lastObs
            /\ \A i \in 1..Len(parkingData) :
                   parkingData[i].id \in Get(lastPoll').skipped =>
                       parkingData'[i] = parkingData[i]]_vars
    /\ [](ENABLED FetchSensorData)

\* A poll has just ended in a network error and the catalogue still holds
\* what earlier merges and drift ticks left in it.
C25_Witness ==
    /\ lastPoll = Some([outcome |-> "networkError", skipped |-> {}])
    /\ Entry("beamish-munro-hall").availableSpots # BeamishMunroHall.availableSpots
    /\ Entry("brock-st").availableSpots # BrockSt.availableSpots

\* A poll whose clergy-st-w value was not a number has just merged its
\* beamish-munro-hall value.
C25_WitnessSkippedEntry ==
    /\ lastPoll = Some([outcome |-> "ok", skipped |-> {"clergy-st-w"}])
    /\ lastWrite = Wrote("applySensorUpdate", "beamish-munro-hall")
    /\ lastObs["clergy-st-w"] = None
    /\ Entry("clergy-st-w").availableSpots = ClergyStW.availableSpots
    /\ Entry("beamish-munro-hall").availableSpots # BeamishMunroHall.availableSpots

\* C26: a drift tick never changes the availableSpots of a sensor-backed
\* location (clergy-st-w, beamish-munro-hall); across any number of ticks
\* their values change only through applySensorUpdate, which leaves the
\* clamped observation it was handed.
C26_DriftSkipsSensorBacked ==
    [][\A i \in 1..Len(parkingData) :
          parkingData[i].id \in ARDUINO_IDS =>
              /\ lastWrite'.by = "simulateUpdate" =>
                     parkingData'[i].availableSpots = parkingData[i].availableSpots
              /\ parkingData'[i].availableSpots # parkingData[i].availableSpots =>
                     /\ lastWrite'.by = "applySensorUpdate"
                     /\ lastObs'[parkingData[i].id] # None
                     /\ parkingData'[i].availableSpots =
                            Clamp(Get(lastObs'[parkingData[i].id]),
                                  parkingData[i].totalSpots)]_vars

\* A drift tick has just run and has moved brock-st, while clergy-st-w still
\* holds the observation merged before the tick.
C26_Witness ==
    /\ lastWrite = Wrote("simulateUpdate", "")
    /\ Entry("brock-st").availableSpots # BrockSt.availableSpots
    /\ lastObs["clergy-st-w"] = Some(5)
    /\ Entry("clergy-st-w").availableSpots = 5
    /\ Entry("beamish-munro-hall").availableSpots = BeamishMunroHall.availableSpots

----------------------------------------------------------------------------
(* Properties of the relay server (checked under SpecRelay) *)

\* C27: after any sequence of POST and GET requests, GET /api/parking
\* answers 200 with exactly the lotIds that have received a valid POST, each
\* with max(0, availableSpots) of its most recent valid POST; a POST whose
\* lotId is not a string or whose availableSpots is not a number is answered
\* 400 and leaves the store unchanged.
C27_RelayKeepsLatestValidPost ==
    /\ [](httpResponse # None =>
            LET r == Get(httpResponse)
                entries == r.json.entries
                key(i) == entries[i].lotId
            IN  /\ r.method = "GET" =>
                       /\ r.status = 200
                       /\ {key(i) : i \in 1..Len(entries)} =
                              {id \in RelayLotIds : lastValidPost[id] # None}
                       /\ \A i, j \in 1..Len(entries) : key(i) = key(j) => i = j
                       /\ \A i \in 1..Len(entries) :
                              entries[i].availableSpots =
                                  Max(0, Get(lastValidPost[key(i)]))
                /\ r.method = "POST" =>
                       (r.status = 400 <=> ~ValidBody(Get(r.body))))
    /\ [][(httpResponse' # None /\ Get(httpResponse').status = 400) =>
              sensorOccupancy' = sensorOccupancy]_vars

\* A GET answers 0 for clergy-st-w, whose latest valid POST carried -1 after
\* an earlier one and before an invalid one, and 3 for beamish-munro-hall.
C27_Witness ==
    /\ httpResponse # None
    /\ Get(httpResponse).method = "GET"
    /\ Get(httpResponse).json.entries =
          <<[lotId |-> "clergy-st-w", availableSpots |-> 0],
            [lotId |-> "beamish-munro-hall", availableSpots |-> 3]>>
    /\ lastValidPost["clergy-st-w"] = Some(0 - 1)

\* A POST without a lotId has just been answered 400 by a relay that holds
\* a value.
C27_WitnessInvalid ==
    /\ httpResponse # None
    /\ Get(httpResponse).status = 400
    /\ Get(Get(httpResponse).body).lotId = Undefined
    /\ sensorOccupancy # <<>>

----------------------------------------------------------------------------
(* Properties of the sketch (checked under SpecSketch) *)

\* C29: for every sequence of FSR presses and timings, currentOccupancy stays
\* within 0..MAX_SPOTS; it increases only, and by one, on an FSR1 press
\* followed by an FSR2 press at most 2000 ms later, and decreases only, and by
\* one, on an FSR2 press followed by an FSR1 press at most 2000 ms later; and
\* every availableSpots value reported for beamish-munro-hall equals
\* MAX_SPOTS - currentOccupancy and lies in 0..3.
C29_CounterFollowsPairs ==
    /\ [](/\ esp32.currentOccupancy \in 0..MAX_SPOTS
          /\ esp32.lastBeamishAvailable # 0 - 1 =>
                /\ esp32.lastBeamishAvailable = MAX_SPOTS - esp32.currentOccupancy
                /\ esp32.lastBeamishAvailable \in 0..3
          /\ lastValidPost["beamish-munro-hall"] # None =>
                Get(lastValidPost["beamish-munro-hall"]) \in 0..3)
    /\ [][/\ esp32'.currentOccupancy > esp32.currentOccupancy =>
                /\ esp32'.currentOccupancy = esp32.currentOccupancy + 1
                /\ pressAge'.fsr2 = 0
                /\ pressAge'.fsr1 \in 1..MAX_TIME_BETWEEN_SENSORS
          /\ esp32'.currentOccupancy < esp32.currentOccupancy =>
                /\ esp32'.currentOccupancy = esp32.currentOccupancy - 1
                /\ pressAge'.fsr1 = 0
                /\ pressAge'.fsr2 \in 1..MAX_TIME_BETWEEN_SENSORS]_vars

\* The counting the claim gets right: a car has entered and left again, each
\* time with its two presses 2000 ms apart, and 3 is reported.
C29_EnteredAndLeft ==
    /\ loops = 4
    /\ esp32.currentOccupancy = 0
    /\ esp32.lastBeamishAvailable = 3
    /\ pressAge = [fsr1 |-> 0, fsr2 |-> MAX_TIME_BETWEEN_SENSORS]
    /\ lastValidPost["beamish-munro-hall"] = Some(3)

\* The counting that breaks it: an entry is counted although the FSR2 press
\* came more than 2000 ms after the FSR1 press.
C29_CountedAcrossWrap ==
    /\ esp32.currentOccupancy = 1
    /\ pressAge = [fsr1 |-> Far, fsr2 |-> 0]

----------------------------------------------------------------------------
(* Properties of sketch, relay and site together (checked under SpecEndToEnd) *)

\* The availableSpots the sketch last handed to postOccupancy for the lot;
\* -1 before the first.
Reported(lotId) ==
    IF lotId = "beamish-munro-hall" THEN esp32.lastBeamishAvailable
    ELSE esp32.lastClergyAvailable

\* The relay holds the value for the lot.
Stored(lotId, v) ==
    \E i \in 1..Len(sensorOccupancy) :
        sensorOccupancy[i] = [lotId |-> lotId, availableSpots |-> v]

\* C28: whenever the Beamish Munro occupancy or the Clergy St W vacancy
\* changes on the device, the new availableSpots value is eventually stored by
\* the relay and then, under continued polling, the catalogue's availableSpots
\* for that lot eventually equals it, clamped to [0, totalSpots]; stated for a
\* value that remains the device's.
C28_DeviceValueReachesSite ==
    \A lotId \in ARDUINO_IDS : \A v \in 0..MAX_SPOTS :
        (Reported(lotId) = v) ~>
            \/ Reported(lotId) # v
            \/ /\ Stored(lotId, v)
               /\ Entry(lotId).availableSpots = Clamp(v, Entry(lotId).totalSpots)

\* The values that do arrive: the site shows the 2 the sketch reported for
\* beamish-munro-hall after a car entered.
C28_Arrived ==
    /\ Reported("beamish-munro-hall") = 2
    /\ Stored("beamish-munro-hall", 2)
    /\ Entry("beamish-munro-hall").availableSpots = 2
    /\ lastPoll # None

\* The value that does not: the sketch has reported 2, the POST did not reach
\* the relay, and loop() has no further change to report.
C28_Lost ==
    /\ Reported("beamish-munro-hall") = 2
    /\ ~Stored("beamish-munro-hall", 2)
    /\ loops = MaxEndToEndLoops

====
